---- MODULE Spec2Model ----
(***************************************************************************)
(* Duplicate-detection engine of AI_photo_cleaner: the analyzePhotos run   *)
(* of DuplicateDetectionService, the SQLite store of DatabaseService       *)
(* (photos, duplicate_groups, duplicate_group_photos, analysis_sessions)   *)
(* and the distance evaluation of PerceptualHashService.                   *)
(*                                                                         *)
(* A hash string is a sequence of character codes: 0..15 are the           *)
(* characters '0'..'9','a'..'f', 16..21 are 'A'..'F', 22 is any character  *)
(* that is not a hex digit.                                                *)
(***************************************************************************)
EXTENDS Integers, Sequences, FiniteSets, TLC

-----------------------------------------------------------------------------
(* Bounds of the model *)

\* number of photos of the device library (their stable identifiers are 1..NPhotos)
NPhotos == 2
\* byte sizes a photo may have: 1..MaxSize
MaxSize == 2
\* number of analyzePhotos calls in one behaviour
MaxRuns == 2
\* number of photos of the library in the shared-fingerprint scenario
MaxShared == 4
\* number of photos of the library in the scenario of a run repeated after failures
MaxRetry == 3
\* number of photos of the library in the scenario of a library that gains and loses photos
MaxLibrary == 3
\* number of leading characters in which the strings passed as hashes vary
MaxPrefix == 2

(* Program constants *)

\* normalizeHashLength: "Ensure exactly 64 characters (256 bits)"
HashLen == 64
\* analyzePhotos: isVisuallySimilar(currentHash, compareHash, 15)
Threshold == 15
\* analyzePhotos, catch block: const sessionUuid = 'error-session' (a uuid no row has)
ErrorSessionUuid == 0

-----------------------------------------------------------------------------
(* PerceptualHashService: pure functions *)

IsHexChar(c) == c \in 0..21

\* a variant of ToLowerCase that keeps upper-case digits
ToLowerCaseSkipped(c) == c

\* toLowerCase() on a hex digit
ToLowerCase(c) == IF c \in 16..21 THEN c - 6 ELSE c

\* hash.replace(/[^0-9a-fA-F]/g, '').toLowerCase(), then substring(0, 64) or padEnd(64, '0')
normalizeHashLength(hash) ==
    LET hexOnly   == SelectSeq(hash, IsHexChar)
        cleanHash == [n \in 1..Len(hexOnly) |-> ToLowerCase(hexOnly[n])]
    IN  IF Len(cleanHash) > HashLen
        THEN SubSeq(cleanHash, 1, HashLen)
        ELSE IF Len(cleanHash) < HashLen
             THEN cleanHash \o [n \in 1..(HashLen - Len(cleanHash)) |-> 0]
             ELSE cleanHash

\* parseInt(char, 16).toString(2).padStart(4, '0'): bit b (1 = most significant) of a hex digit
HexBit(d, b) == (d \div (2 ^ (4 - b))) % 2

\* every character of the normalized hash replaced by its four bits
hexToBinary(hex) ==
    LET normalizedHex == normalizeHashLength(hex)
    IN  [n \in 1..(4 * Len(normalizedHex)) |->
            HexBit(normalizedHex[((n - 1) \div 4) + 1], ((n - 1) % 4) + 1)]

\* number of positions where the two binary strings differ (equal lengths: both are 256 bits)
calculateHammingDistance(hash1, hash2) ==
    Cardinality({n \in 1..Len(hash1) : hash1[n] # hash2[n]})

\* a variant of WithinThreshold that excludes the threshold itself
WithinThresholdStrict(hammingDistance, threshold) == hammingDistance < threshold

\* return hammingDistance <= threshold
WithinThreshold(hammingDistance, threshold) == hammingDistance <= threshold

\* the catch block (fallback to exact match) is entered only when calculateHammingDistance
\* throws on unequal lengths, and hexToBinary makes both strings 256 bits long
isVisuallySimilar(hash1, hash2, threshold) ==
    IF hash1 = hash2 THEN TRUE
    ELSE WithinThreshold(
            calculateHammingDistance(hexToBinary(hash1), hexToBinary(hash2)), threshold)

\* 1 - hammingDistance / maxDistance as the fraction num / den (never negative, so that
\* Math.max(0, similarity) is the fraction itself)
calculateVisualSimilarity(hash1, hash2) ==
    IF hash1 = hash2 THEN [num |-> 1, den |-> 1]
    ELSE LET binary1     == hexToBinary(hash1)
             maxDistance == Len(binary1)
         IN  [num |-> maxDistance
                        - calculateHammingDistance(binary1, hexToBinary(hash2)),
              den |-> maxDistance]

-----------------------------------------------------------------------------
(* The hashes calculateVisualHash can return: SHA-256 digests, 64 lowercase *)
(* hex characters. LeadingOnes(b) is the digest whose first b bits are 1    *)
(* and whose other bits are 0, so that two of them differ in |b1 - b2| bits.*)

LeadingOnes(b) ==
    [n \in 1..HashLen |->
        IF 4 * n <= b THEN 15
        ELSE IF 4 * (n - 1) >= b THEN 0
        ELSE 16 - 2 ^ (4 * n - b)]

VisualHashes == {LeadingOnes(0), LeadingOnes(Threshold), LeadingOnes(Threshold + 1)}

-----------------------------------------------------------------------------
(* State *)

VARIABLES
    \* the store (DatabaseService): row ids are the indexes of photos and analysis_sessions
    photos,                  \* table photos
    duplicate_groups,        \* table duplicate_groups: id -> row
    duplicate_group_photos,  \* table duplicate_group_photos: set of rows
    groupSeq,                \* AUTOINCREMENT counter of duplicate_groups
    analysis_sessions,       \* table analysis_sessions
    \* the analyzePhotos call in progress, or the last one made
    pc,                      \* "idle" | "save" | "cluster" | "persist" | "finish"
    batch,                   \* argument photos
    clearExistingGroups,     \* argument clearExistingGroups
    sessionUuid,
    i,                       \* index of the photo loop
    analyzedCount,
    photoMap,                \* insertion-ordered map of the processed photos, as its value list
    photoMetadataCache,      \* localIdentifier -> photo row
    confirmedDuplicates,     \* the clusters
    k,                       \* index of the cluster loop
    duplicateGroups,
    totalDuplicates,
    totalSpaceSaved,
    ret,                     \* what the last finished operation returned
    \* history of the run, for the properties
    createdGroups,           \* ids of the group rows inserted by the run
    rerun,                   \* the run repeats the call that finished just before it
    extendedGroups,          \* ids of the existing groups the run added members to
    failedPhotos,            \* localIdentifiers of the photos whose loop pass threw
    failedClusters,          \* the clusters whose createDuplicateGroup threw, each as the
                             \* set of its photos' localIdentifiers
    \* the caller's side of the call
    cancelRequested,         \* the user has asked to stop the run in progress
    progress,                \* the values passed to onProgress by the run, in order
    \* the one connection this.db that every DatabaseService method uses
    connection,              \* its transaction and the createDuplicateGroup call suspended
                             \* at an await between BEGIN TRANSACTION and COMMIT
    \* MigrationService
    migrations,              \* table migrations: the versions recorded as applied
    schemaObjects,           \* the versions whose tables or indexes exist in the database
    migrationCall            \* the runMigrations or rollbackMigration call in progress

storeVars == <<photos, duplicate_groups, duplicate_group_photos, groupSeq, analysis_sessions>>
callVars  == <<batch, clearExistingGroups, createdGroups, rerun, extendedGroups,
               failedPhotos, failedClusters>>
loopVars  == <<sessionUuid, i, analyzedCount, photoMap, photoMetadataCache,
               confirmedDuplicates, k, duplicateGroups, totalDuplicates, totalSpaceSaved>>
signalVars == <<cancelRequested, progress>>
migrationVars == <<migrations, schemaObjects, migrationCall>>
vars      == <<storeVars, pc, callVars, loopVars, ret, signalVars, connection, migrationVars>>

-----------------------------------------------------------------------------
(* Helpers *)

RECURSIVE SumOver(_, _)
\* sum of f[x] over the finite set S
SumOver(f, S) ==
    IF S = {} THEN 0
    ELSE LET x == CHOOSE y \in S : TRUE IN f[x] + SumOver(f, S \ {x})

SeqSum(s) == SumOver(s, DOMAIN s)

Range(s) == {s[n] : n \in DOMAIN s}

\* string comparison of two hashes of the same length (Array.prototype.sort on strings)
LexLess(a, b) ==
    \E n \in 1..Len(a) : a[n] < b[n] /\ \A m \in 1..(n - 1) : a[m] = b[m]

\* the photos a caller can pass: any order of any distinct photos of the library,
\* each with a byte size and the hash calculateVisualHash computes from its content
Orders ==
    {o \in UNION {[1..n -> 1..NPhotos] : n \in 0..NPhotos} :
        \A a, b \in DOMAIN o : a # b => o[a] # o[b]}

Batches ==
    UNION {
        {[n \in DOMAIN o |-> [localIdentifier |-> o[n],
                              fileSize        |-> attr[n][1],
                              visualHash      |-> attr[n][2]]] :
            attr \in [DOMAIN o -> (1..MaxSize) \X VisualHashes]} :
        o \in Orders}

\* the batches of a library of MaxShared photos that all have the same byte size, in the
\* order in which the library lists them
SharedBatches ==
    UNION {
        {[n \in DOMAIN o |-> [localIdentifier |-> o[n],
                              fileSize        |-> 1,
                              visualHash      |-> hashes[n]]] :
            hashes \in [DOMAIN o -> VisualHashes]} :
        o \in {p \in UNION {[1..n -> 1..MaxShared] : n \in 0..MaxShared} :
                    \A a, b \in DOMAIN p : a < b => p[a] < p[b]}}

-----------------------------------------------------------------------------
(* DatabaseService *)

\* a variant of PhotoIdOf that finds no row
PhotoIdOfNone(tbl, lid) == 0

\* SELECT id FROM photos WHERE local_identifier = ?  (0: no row)
PhotoIdOf(tbl, lid) ==
    IF \E n \in DOMAIN tbl : tbl[n].local_identifier = lid
    THEN CHOOSE n \in DOMAIN tbl : tbl[n].local_identifier = lid
    ELSE 0

\* a variant of UpdateHash that writes the row anew, with the flags of a new photo
UpdateHashAndFlags(row, hashValue) ==
    [row EXCEPT !.hash_value = hashValue, !.is_duplicate = FALSE, !.is_deleted = FALSE]

\* UPDATE photos SET hash_value = ?, updated_at = CURRENT_TIMESTAMP WHERE id = ?
UpdateHash(row, hashValue) == [row EXCEPT !.hash_value = hashValue]

\* the table photos after savePhoto(photo): an existing row only gets a changed hash
savePhoto(tbl, photo) ==
    LET existingId == PhotoIdOf(tbl, photo.localIdentifier)
    IN  IF existingId # 0
        THEN IF photo.hashValue # <<>> /\ photo.hashValue # tbl[existingId].hash_value
             THEN [tbl EXCEPT ![existingId] = UpdateHash(tbl[existingId], photo.hashValue)]
             ELSE tbl
        ELSE Append(tbl, [local_identifier |-> photo.localIdentifier,
                          file_size        |-> photo.fileSize,
                          hash_value       |-> photo.hashValue,
                          is_duplicate     |-> photo.isDuplicate,
                          is_deleted       |-> photo.isDeleted])

\* the id savePhoto(photo) returns: existingId, or result.lastInsertRowId
savePhotoId(tbl, photo) ==
    LET existingId == PhotoIdOf(tbl, photo.localIdentifier)
    IN  IF existingId # 0 THEN existingId ELSE Len(tbl) + 1

mapRowToPhoto(tbl, id) ==
    [id              |-> id,
     localIdentifier |-> tbl[id].local_identifier,
     fileSize        |-> tbl[id].file_size,
     hashValue       |-> tbl[id].hash_value]

\* SELECT * FROM photos WHERE is_deleted = FALSE, as the set of row ids
getAllPhotos(tbl) == {n \in DOMAIN tbl : ~tbl[n].is_deleted}

\* photo ids of the rows of a group
MembersOf(rows, groupId) == {r.photo_id : r \in {x \in rows : x.group_id = groupId}}

\* SELECT COALESCE(SUM(p.file_size), 0) ... WHERE dgp.group_id = ? AND p.is_deleted = FALSE
LiveTotalSize(tbl, rows, groupId) ==
    SumOver([n \in DOMAIN tbl |-> tbl[n].file_size],
            {n \in MembersOf(rows, groupId) : ~tbl[n].is_deleted})

updateGroupTotalSize(groups, tbl, rows, groupId) ==
    [groups EXCEPT ![groupId].total_size = LiveTotalSize(tbl, rows, groupId)]

\* UPDATE photos SET is_duplicate = TRUE WHERE id in ids
MarkDuplicate(tbl, ids) ==
    [n \in DOMAIN tbl |-> IF n \in ids THEN [tbl[n] EXCEPT !.is_duplicate = TRUE] ELSE tbl[n]]

\* the first photo id is recommended to keep
IsRecommendedKeep(n) == n = 1

\* a variant of NotYetMember that lets every supplied photo through
NotYetMemberUnfiltered(existingIds, id) == TRUE

\* photoIds.filter(id => !existingIds.includes(id))
NotYetMember(existingIds, id) == id \notin existingIds

\* a variant of NewPhotoCount that leaves the count as it was
NewPhotoCountKept(existingPhotoCount, added) == existingPhotoCount

\* const newPhotoCount = existingPhotoCount + newPhotoIds.length
NewPhotoCount(existingPhotoCount, added) == existingPhotoCount + added

\* createDuplicateGroup(groupHash, photoIds): the store after the call and the id returned
createDuplicateGroup(groupHash, photoIds) ==
    IF \E g \in DOMAIN duplicate_groups : duplicate_groups[g].group_hash = groupHash
    THEN
        LET existingId   == CHOOSE g \in DOMAIN duplicate_groups :
                                duplicate_groups[g].group_hash = groupHash
            existingIds  == MembersOf(duplicate_group_photos, existingId)
            newPhotoIds  == SelectSeq(photoIds, LAMBDA id : NotYetMember(existingIds, id))
            rows         == duplicate_group_photos \cup
                            {[group_id |-> existingId, photo_id |-> newPhotoIds[n],
                              is_recommended_keep |-> FALSE] : n \in DOMAIN newPhotoIds}
            tbl          == MarkDuplicate(photos, Range(newPhotoIds))
            counted      == [duplicate_groups EXCEPT ![existingId].photo_count =
                                NewPhotoCount(duplicate_groups[existingId].photo_count,
                                              Len(newPhotoIds))]
        IN  IF Len(newPhotoIds) > 0
            THEN [photos |-> tbl, rows |-> rows, seq |-> groupSeq, id |-> existingId,
                  groups |-> updateGroupTotalSize(counted, tbl, rows, existingId)]
            ELSE [photos |-> photos, rows |-> duplicate_group_photos, seq |-> groupSeq,
                  id |-> existingId, groups |-> duplicate_groups]
    ELSE
        LET groupId  == groupSeq + 1
            inserted == [g \in DOMAIN duplicate_groups \cup {groupId} |->
                            IF g = groupId
                            THEN [group_hash |-> groupHash, photo_count |-> Len(photoIds),
                                  total_size |-> 0]
                            ELSE duplicate_groups[g]]
            rows     == duplicate_group_photos \cup
                        {[group_id |-> groupId, photo_id |-> photoIds[n],
                          is_recommended_keep |-> IsRecommendedKeep(n)] : n \in DOMAIN photoIds}
            tbl      == MarkDuplicate(photos, Range(photoIds))
        IN  [photos |-> tbl, rows |-> rows, seq |-> groupId, id |-> groupId,
             groups |-> updateGroupTotalSize(inserted, tbl, rows, groupId)]

Min(a, b) == IF a < b THEN a ELSE b

\* photos, membership rows, AUTOINCREMENT counter and groups as they are
CurrentStore ==
    [photos |-> photos, rows |-> duplicate_group_photos, seq |-> groupSeq,
     groups |-> duplicate_groups]

\* the number of statements createDuplicateGroup writes between BEGIN TRANSACTION and COMMIT
WritesOf(groupHash, photoIds) ==
    IF \E g \in DOMAIN duplicate_groups : duplicate_groups[g].group_hash = groupHash
    THEN LET existingId  == CHOOSE g \in DOMAIN duplicate_groups :
                                duplicate_groups[g].group_hash = groupHash
             existingIds == MembersOf(duplicate_group_photos, existingId)
             newPhotoIds == SelectSeq(photoIds, LAMBDA id : NotYetMember(existingIds, id))
         IN  IF Len(newPhotoIds) > 0 THEN 2 * Len(newPhotoIds) + 2 ELSE 0
    ELSE 2 * Len(photoIds) + 2

\* the store inside the transaction of createDuplicateGroup when the statement after the
\* first n writes throws (n = WritesOf: COMMIT throws)
InterruptedWrites(groupHash, photoIds, n) ==
    IF \E g \in DOMAIN duplicate_groups : duplicate_groups[g].group_hash = groupHash
    THEN
        LET existingId   == CHOOSE g \in DOMAIN duplicate_groups :
                                duplicate_groups[g].group_hash = groupHash
            existingIds  == MembersOf(duplicate_group_photos, existingId)
            newPhotoIds  == SelectSeq(photoIds, LAMBDA id : NotYetMember(existingIds, id))
            inserted     == SubSeq(newPhotoIds, 1, Min((n + 1) \div 2, Len(newPhotoIds)))
            flagged      == SubSeq(newPhotoIds, 1, Min(n \div 2, Len(newPhotoIds)))
            rows         == duplicate_group_photos \cup
                            {[group_id |-> existingId, photo_id |-> inserted[m],
                              is_recommended_keep |-> FALSE] : m \in DOMAIN inserted}
            tbl          == MarkDuplicate(photos, Range(flagged))
            counted      == IF n >= 2 * Len(newPhotoIds) + 1
                            THEN [duplicate_groups EXCEPT ![existingId].photo_count =
                                    NewPhotoCount(duplicate_groups[existingId].photo_count,
                                                  Len(newPhotoIds))]
                            ELSE duplicate_groups
        IN  [photos |-> tbl, rows |-> rows, seq |-> groupSeq,
             groups |-> IF n >= 2 * Len(newPhotoIds) + 2
                        THEN updateGroupTotalSize(counted, tbl, rows, existingId)
                        ELSE counted]
    ELSE
        IF n = 0 THEN CurrentStore
        ELSE
        LET groupId  == groupSeq + 1
            created  == [g \in DOMAIN duplicate_groups \cup {groupId} |->
                            IF g = groupId
                            THEN [group_hash |-> groupHash, photo_count |-> Len(photoIds),
                                  total_size |-> 0]
                            ELSE duplicate_groups[g]]
            inserted == SubSeq(photoIds, 1, Min(n \div 2, Len(photoIds)))
            flagged  == SubSeq(photoIds, 1, Min((n - 1) \div 2, Len(photoIds)))
            rows     == duplicate_group_photos \cup
                        {[group_id |-> groupId, photo_id |-> inserted[m],
                          is_recommended_keep |-> IsRecommendedKeep(m)] : m \in DOMAIN inserted}
            tbl      == MarkDuplicate(photos, Range(flagged))
        IN  [photos |-> tbl, rows |-> rows, seq |-> groupId,
             groups |-> IF n >= 2 * Len(photoIds) + 2
                        THEN updateGroupTotalSize(created, tbl, rows, groupId)
                        ELSE created]

\* a variant of Rollback that keeps what the transaction wrote
RollbackSkipped(before, interrupted) == interrupted

\* catch (error) { ROLLBACK; throw error }: the store as it was at BEGIN TRANSACTION
Rollback(before, interrupted) == before

\* UPDATE analysis_sessions SET <updates> WHERE session_uuid = ?
\* (a session_uuid is modelled by the position of its row; no row has the uuid 0)
updateAnalysisSession(sessions, uuid, updates) ==
    [n \in DOMAIN sessions |->
        IF n = uuid
        THEN [f \in DOMAIN sessions[n] |->
                IF f \in DOMAIN updates THEN updates[f] ELSE sessions[n][f]]
        ELSE sessions[n]]

\* SELECT * FROM analysis_sessions ORDER BY created_at DESC LIMIT 1  (0: no session)
getLatestAnalysisSession(sessions) == Len(sessions)

\* markGroupAsNotDuplicate / clearAllDuplicateGroups: the rows they leave
RowsWithoutGroup(rows, groupId) == {r \in rows : r.group_id # groupId}

\* a variant of GroupsWithout that removes every group
GroupsWithoutAny(groups, groupId) == [g \in {} |-> 0]

\* DELETE FROM duplicate_groups WHERE id = ?
GroupsWithout(groups, groupId) == [g \in DOMAIN groups \ {groupId} |-> groups[g]]

\* a variant of ResetDuplicateFlags that leaves the flags as they are
ResetDuplicateFlagsSkipped(tbl) == tbl

\* UPDATE photos SET is_duplicate = FALSE WHERE is_duplicate = TRUE
ResetDuplicateFlags(tbl) == [n \in DOMAIN tbl |-> [tbl[n] EXCEPT !.is_duplicate = FALSE]]

NoGroups == [g \in {} |-> 0]

\* no runMigrations or rollbackMigration call is in progress
NoMigrationCall == [op |-> "none", targetVersion |-> 0, before |-> 0, queue |-> <<>>]

\* the connection in autocommit mode with no createDuplicateGroup call suspended; snapshot is
\* the store as it was at the BEGIN TRANSACTION of the open transaction
NoTransaction ==
    [inTransaction |-> FALSE, suspended |-> FALSE, plan |-> <<>>, written |-> 0, groupId |-> 0,
     snapshot |-> [photos |-> <<>>, rows |-> {}, seq |-> 0, groups |-> NoGroups]]

-----------------------------------------------------------------------------
(* DuplicateDetectionService.analyzePhotos: pure parts *)

\* photoService.convertToPhotoMetadata(photo), with hashValue set to the normalized hash
convertToPhotoMetadata(photo, finalHash) ==
    [localIdentifier |-> photo.localIdentifier,
     fileSize        |-> photo.fileSize,
     hashValue       |-> finalHash,
     isDuplicate     |-> FALSE,
     isDeleted       |-> FALSE]

\* initializeMetadataCache: the rows of getAllPhotos keyed by localIdentifier
initializeMetadataCache(tbl) ==
    [lid \in {tbl[n].local_identifier : n \in getAllPhotos(tbl)} |->
        mapRowToPhoto(tbl, PhotoIdOf(tbl, lid))]

\* getPhotoHashFromCache(photo) !== null
HasHashInCache(cache, photo) == photo.localIdentifier \in DOMAIN cache

getPhotoHashFromCache(cache, photo) == cache[photo.localIdentifier].hashValue

\* a variant of AlreadyProcessed that finds no photo processed
AlreadyProcessedNever(processed, photo) == FALSE

\* processedPhotos.has(photo.id)
AlreadyProcessed(processed, photo) == photo.localIdentifier \in processed

RECURSIVE SeedExpansion(_, _, _, _)
\* the loop over photosWithHashes from index n on, with the processed set and the clusters so far
SeedExpansion(photosWithHashes, cache, n, st) ==
    IF n > Len(photosWithHashes) THEN st.confirmed
    ELSE IF AlreadyProcessed(st.processed, photosWithHashes[n])
    THEN SeedExpansion(photosWithHashes, cache, n + 1, st)
    ELSE
        LET currentPhoto == photosWithHashes[n]
            currentHash  == getPhotoHashFromCache(cache, currentPhoto)
            Joins(comparePhoto) ==
                /\ ~AlreadyProcessed(st.processed, comparePhoto)
                /\ isVisuallySimilar(currentHash,
                                     getPhotoHashFromCache(cache, comparePhoto), Threshold)
            similarGroup == <<currentPhoto>> \o
                            SelectSeq(SubSeq(photosWithHashes, n + 1, Len(photosWithHashes)),
                                      Joins)
            processed    == st.processed \cup
                            {similarGroup[m].localIdentifier : m \in DOMAIN similarGroup}
        IN  SeedExpansion(photosWithHashes, cache, n + 1,
                [processed |-> processed,
                 confirmed |-> IF Len(similarGroup) > 1
                               THEN Append(st.confirmed, similarGroup)
                               ELSE st.confirmed])

\* confirmedDuplicates for the processed photos of the run
Clusters(allPhotos, cache) ==
    LET photosWithHashes == SelectSeq(allPhotos, LAMBDA p : HasHashInCache(cache, p))
    IN  SeedExpansion(photosWithHashes, cache, 1, [processed |-> {}, confirmed |-> <<>>])

\* a variant of GroupHashOf that gives every cluster the fallback key
GroupHashOfUnknown(photoMetadataList) == <<>>

\* allHashes.sort()[0]
GroupHashOf(photoMetadataList) ==
    LET allHashes == {photoMetadataList[n].hashValue : n \in DOMAIN photoMetadataList}
    IN  CHOOSE h \in allHashes : \A o \in allHashes : ~LexLess(o, h)

\* a variant of Larger that also replaces the largest photo by one of equal size
LargerOrEqual(largest, current) ==
    IF current.fileSize >= largest.fileSize THEN current ELSE largest

\* current.fileSize > largest.fileSize ? current : largest
Larger(largest, current) ==
    IF current.fileSize > largest.fileSize THEN current ELSE largest

RECURSIVE Reduce(_, _, _)
\* duplicateSet.reduce(Larger) from index n on: without an initial value the first element starts
Reduce(duplicateSet, n, largest) ==
    IF n > Len(duplicateSet) THEN largest
    ELSE Reduce(duplicateSet, n + 1, Larger(largest, duplicateSet[n]))

LargestPhoto(duplicateSet) == Reduce(duplicateSet, 2, duplicateSet[1])

\* one pass of the loop over confirmedDuplicates: the group of one cluster
GroupOfCluster(duplicateSet, cache, groupId) ==
    LET photoMetadataList == [n \in DOMAIN duplicateSet |->
                                 cache[duplicateSet[n].localIdentifier]]
        totalSize    == SeqSum([n \in DOMAIN duplicateSet |-> duplicateSet[n].fileSize])
        largestPhoto == LargestPhoto(duplicateSet)
    IN  [id                |-> groupId,
         groupHash         |-> GroupHashOf(photoMetadataList),
         photoCount        |-> Len(duplicateSet),
         totalSize         |-> totalSize,
         photos            |-> photoMetadataList,
         recommendedKeepId |-> cache[largestPhoto.localIdentifier].id]

-----------------------------------------------------------------------------
(* Initial state: the freshly migrated, empty database; no call made yet *)

NoReturn == [op |-> "none"]

Init ==
    /\ photos = <<>>
    /\ duplicate_groups = NoGroups
    /\ duplicate_group_photos = {}
    /\ groupSeq = 0
    /\ analysis_sessions = <<>>
    /\ pc = "idle"
    /\ batch = <<>>
    /\ clearExistingGroups = FALSE
    /\ sessionUuid = 0
    /\ i = 0
    /\ analyzedCount = 0
    /\ photoMap = <<>>
    /\ photoMetadataCache = <<>>
    /\ confirmedDuplicates = <<>>
    /\ k = 0
    /\ duplicateGroups = <<>>
    /\ totalDuplicates = 0
    /\ totalSpaceSaved = 0
    /\ ret = NoReturn
    /\ createdGroups = {}
    /\ rerun = FALSE
    /\ extendedGroups = {}
    /\ failedPhotos = {}
    /\ failedClusters = {}
    /\ cancelRequested = FALSE
    /\ progress = <<>>
    /\ connection = NoTransaction
    /\ migrations = {}
    /\ schemaObjects = {}
    /\ migrationCall = NoMigrationCall

-----------------------------------------------------------------------------
(* analyzePhotos, one action per awaited step *)

\* no call is in progress (the screen's isAnalyzing flag)
CanAnalyze == pc = "idle"

\* a progress value as a fraction: a whole number, and (analyzedCount / photos.length) * 100
Whole(n) == [num |-> n, den |-> 1]

PhotoProgress(count, total) == [num |-> count * 100, den |-> total]

\* the call, the optional clearAllDuplicateGroups with onProgress(5), createAnalysisSession
\* and onProgress(0)
AnalyzeStart(photoList, clear) ==
    /\ CanAnalyze
    /\ IF clear
       THEN /\ photos' = ResetDuplicateFlags(photos)
            /\ duplicate_group_photos' = {}
            /\ duplicate_groups' = NoGroups
       ELSE UNCHANGED <<photos, duplicate_groups, duplicate_group_photos>>
    /\ analysis_sessions' = Append(analysis_sessions,
            [total_photos |-> Len(photoList), analyzed_photos |-> 0,
             duplicates_found |-> 0, total_size_analyzed |-> 0,
             potential_space_saved |-> 0, status |-> "running",
             error_message |-> "none"])
    /\ sessionUuid' = Len(analysis_sessions) + 1
    /\ batch' = photoList
    /\ clearExistingGroups' = clear
    /\ createdGroups' = {}
    /\ rerun' = (ret.op = "analyze" /\ photoList = batch /\ ~clear)
    /\ extendedGroups' = {}
    /\ failedPhotos' = {}
    /\ failedClusters' = {}
    /\ i' = 1
    /\ analyzedCount' = 0
    /\ photoMap' = <<>>
    /\ pc' = IF Len(photoList) = 0 THEN "cluster" ELSE "save"
    /\ ret' = NoReturn
    /\ cancelRequested' = FALSE
    /\ UNCHANGED <<migrationVars, connection>>
    /\ progress' = IF clear THEN <<Whole(5), Whole(0)>> ELSE <<Whole(0)>>
    /\ UNCHANGED <<groupSeq, photoMetadataCache, confirmedDuplicates, k,
                   duplicateGroups, totalDuplicates, totalSpaceSaved>>

\* one pass of the photo loop: calculateVisualHash, normalizeHashLength, savePhoto,
\* onProgress
ProcessPhoto ==
    /\ pc = "save"
    /\ LET photo     == batch[i]
           finalHash == normalizeHashLength(photo.visualHash)
       IN  /\ photos' = savePhoto(photos, convertToPhotoMetadata(photo, finalHash))
           /\ photoMap' = Append(photoMap, photo)
    /\ analyzedCount' = analyzedCount + 1
    /\ i' = i + 1
    /\ pc' = IF i = Len(batch) THEN "cluster" ELSE "save"
    /\ progress' = Append(progress, PhotoProgress(analyzedCount + 1, Len(batch)))
    /\ UNCHANGED <<migrationVars, connection, cancelRequested, duplicate_groups, duplicate_group_photos, groupSeq,
                   analysis_sessions, callVars, sessionUuid, photoMetadataCache, confirmedDuplicates, k,
                   duplicateGroups, totalDuplicates, totalSpaceSaved, ret>>

\* a variant of SkipPhoto that keeps the photo among the photos to cluster
SkipPhotoKept(map, photo) == Append(map, photo)

\* catch (error) { /* Continue with next photo */ }: photoMap.set is not reached
SkipPhoto(map, photo) == map

\* one pass of the photo loop in which calculateVisualHash or savePhoto throws: the
\* catch block of the loop goes on to the next photo
ProcessPhotoFails ==
    /\ pc = "save"
    /\ i' = i + 1
    /\ pc' = IF i = Len(batch) THEN "cluster" ELSE "save"
    /\ failedPhotos' = failedPhotos \cup {batch[i].localIdentifier}
    /\ photoMap' = SkipPhoto(photoMap, batch[i])
    /\ UNCHANGED <<migrationVars, connection, signalVars, storeVars, batch, clearExistingGroups, createdGroups, rerun,
                   extendedGroups, failedClusters, sessionUuid, analyzedCount,
                   photoMetadataCache, confirmedDuplicates, k, duplicateGroups,
                   totalDuplicates, totalSpaceSaved, ret>>

\* initializeMetadataCache and the clustering loops
ClusterPhotos ==
    /\ pc = "cluster"
    /\ photoMetadataCache' = initializeMetadataCache(photos)
    /\ confirmedDuplicates' = Clusters(photoMap, photoMetadataCache')
    /\ k' = 1
    /\ duplicateGroups' = <<>>
    /\ totalDuplicates' = 0
    /\ totalSpaceSaved' = 0
    /\ pc' = IF Len(confirmedDuplicates') = 0 THEN "finish" ELSE "persist"
    /\ progress' = Append(progress, Whole(90))
    /\ UNCHANGED <<migrationVars, connection, cancelRequested, storeVars, callVars, sessionUuid, i, analyzedCount,
                   photoMap, ret>>

\* a variant of DuplicatesToRemove that counts every member of the cluster
DuplicatesToRemoveAll(duplicateSet) == Len(duplicateSet)

\* totalDuplicates += duplicateSet.length - 1
DuplicatesToRemove(duplicateSet) == Len(duplicateSet) - 1

\* a variant of DuplicatesOfPass that counts the cluster although the pass threw
DuplicatesOfPassThrown(duplicateSet, thrown) == DuplicatesToRemove(duplicateSet)

\* what a pass of the loop adds to totalDuplicates: the statement comes after
\* createDuplicateGroup and is not reached when that call throws
DuplicatesOfPass(duplicateSet, thrown) ==
    IF thrown THEN 0 ELSE DuplicatesToRemove(duplicateSet)

\* one pass of the loop over confirmedDuplicates
PersistGroup ==
    /\ pc = "persist"
    /\ LET duplicateSet == confirmedDuplicates[k]
           photoMetadataList == [n \in DOMAIN duplicateSet |->
                                    photoMetadataCache[duplicateSet[n].localIdentifier]]
           photoIds == [n \in DOMAIN photoMetadataList |-> photoMetadataList[n].id]
           after    == createDuplicateGroup(GroupHashOf(photoMetadataList), photoIds)
           group    == GroupOfCluster(duplicateSet, photoMetadataCache, after.id)
       IN  IF Len(photoMetadataList) > 1
           THEN /\ photos' = after.photos
                /\ duplicate_groups' = after.groups
                /\ duplicate_group_photos' = after.rows
                /\ groupSeq' = after.seq
                /\ createdGroups' = IF after.seq # groupSeq
                                    THEN createdGroups \cup {after.id} ELSE createdGroups
                /\ extendedGroups' =
                        IF after.seq = groupSeq /\ after.rows # duplicate_group_photos
                        THEN extendedGroups \cup {after.id} ELSE extendedGroups
                /\ duplicateGroups' = Append(duplicateGroups, group)
                /\ totalDuplicates' = totalDuplicates + DuplicatesOfPass(duplicateSet, FALSE)
                /\ totalSpaceSaved' = totalSpaceSaved
                        + (group.totalSize - LargestPhoto(duplicateSet).fileSize)
           ELSE UNCHANGED <<photos, duplicate_groups, duplicate_group_photos, groupSeq,
                            createdGroups, extendedGroups, duplicateGroups,
                            totalDuplicates, totalSpaceSaved>>
    /\ k' = k + 1
    /\ pc' = IF k = Len(confirmedDuplicates) THEN "finish" ELSE "persist"
    /\ UNCHANGED <<migrationVars, connection, signalVars, analysis_sessions, batch, clearExistingGroups, rerun, failedPhotos,
                   failedClusters, sessionUuid, i, analyzedCount, photoMap,
                   photoMetadataCache, confirmedDuplicates, ret>>

\* one pass of the loop over confirmedDuplicates in which createDuplicateGroup throws after
\* its first n writes: the transaction is rolled back and the catch block of the loop goes
\* on to the next cluster
PersistGroupFails(n) ==
    /\ pc = "persist"
    /\ LET duplicateSet == confirmedDuplicates[k]
           photoMetadataList == [m \in DOMAIN duplicateSet |->
                                    photoMetadataCache[duplicateSet[m].localIdentifier]]
           photoIds == [m \in DOMAIN photoMetadataList |-> photoMetadataList[m].id]
           groupHash == GroupHashOf(photoMetadataList)
           after    == Rollback(CurrentStore, InterruptedWrites(groupHash, photoIds, n))
       IN  /\ Len(photoMetadataList) > 1
           /\ n <= WritesOf(groupHash, photoIds)
           /\ photos' = after.photos
           /\ duplicate_groups' = after.groups
           /\ duplicate_group_photos' = after.rows
           /\ groupSeq' = after.seq
    /\ k' = k + 1
    /\ pc' = IF k = Len(confirmedDuplicates) THEN "finish" ELSE "persist"
    /\ failedClusters' = failedClusters \cup
            {{confirmedDuplicates[k][m].localIdentifier : m \in DOMAIN confirmedDuplicates[k]}}
    /\ totalDuplicates' = totalDuplicates + DuplicatesOfPass(confirmedDuplicates[k], TRUE)
    /\ UNCHANGED <<migrationVars, connection, signalVars, analysis_sessions, batch, clearExistingGroups, createdGroups, rerun,
                   extendedGroups, failedPhotos, sessionUuid, i, analyzedCount, photoMap,
                   photoMetadataCache, confirmedDuplicates, duplicateGroups,
                   totalSpaceSaved, ret>>

\* what the call leaves behind when it ends
ResetLocals ==
    /\ sessionUuid' = 0
    /\ i' = 0
    /\ analyzedCount' = 0
    /\ photoMap' = <<>>
    /\ photoMetadataCache' = <<>>
    /\ confirmedDuplicates' = <<>>
    /\ k' = 0
    /\ duplicateGroups' = <<>>
    /\ totalDuplicates' = 0
    /\ totalSpaceSaved' = 0

\* updateAnalysisSession(completed) and the return
AnalyzeFinish ==
    /\ pc = "finish"
    /\ analysis_sessions' = updateAnalysisSession(analysis_sessions, sessionUuid,
            [analyzed_photos       |-> analyzedCount,
             duplicates_found      |-> totalDuplicates,
             total_size_analyzed   |-> SeqSum([n \in DOMAIN batch |-> batch[n].fileSize]),
             potential_space_saved |-> totalSpaceSaved,
             status                |-> "completed"])
    /\ ret' = [op |-> "analyze",
               totalPhotos         |-> Len(batch),
               duplicatesFound     |-> totalDuplicates,
               duplicateGroups     |-> duplicateGroups,
               potentialSpaceSaved |-> totalSpaceSaved]
    /\ pc' = "idle"
    /\ ResetLocals
    /\ progress' = Append(progress, Whole(100))
    /\ UNCHANGED <<migrationVars, connection, cancelRequested, photos, duplicate_groups, duplicate_group_photos,
                   groupSeq, callVars>>

\* a whole-run error: initializeMetadataCache throws, or the final updateAnalysisSession
\* throws. The catch block updates the session 'error-session' (updateFails: that update
\* throws too and is swallowed) and rethrows.
AnalyzeFails(updateFails) ==
    /\ pc \in {"cluster", "finish"}
    /\ analysis_sessions' =
            IF updateFails THEN analysis_sessions
            ELSE updateAnalysisSession(analysis_sessions, ErrorSessionUuid,
                    [status |-> "error", error_message |-> "message"])
    /\ ret' = [op |-> "analyzeError", sessionUuid |-> sessionUuid,
               updateFailed |-> updateFails]
    /\ pc' = "idle"
    /\ ResetLocals
    /\ progress' = IF pc = "cluster" THEN Append(progress, Whole(90)) ELSE progress
    /\ UNCHANGED <<migrationVars, connection, cancelRequested, photos, duplicate_groups, duplicate_group_photos,
                   groupSeq, callVars>>

\* the user asks to stop the run in progress: analyzePhotos(photos, onProgress,
\* clearExistingGroups) has no parameter that carries the request, and no step reads it
RequestCancel ==
    /\ pc # "idle"
    /\ ~cancelRequested
    /\ cancelRequested' = TRUE
    /\ UNCHANGED <<migrationVars, connection, storeVars, pc, callVars, loopVars, ret, progress>>

\* updateSessionAfterDeletion(deletedCount, spaceSaved)
UpdateSessionAfterDeletion(deletedCount, spaceSaved) ==
    /\ pc = "idle"
    /\ LET latestSession == getLatestAnalysisSession(analysis_sessions)
       IN  analysis_sessions' =
                IF latestSession = 0 THEN analysis_sessions
                ELSE updateAnalysisSession(analysis_sessions, latestSession,
                        [potential_space_saved |-> spaceSaved,
                         duplicates_found      |-> deletedCount,
                         status                |-> "completed"])
    /\ ret' = [op |-> "sessionUpdate"]
    /\ UNCHANGED <<migrationVars, connection, signalVars, photos, duplicate_groups, duplicate_group_photos, groupSeq, pc,
                   callVars, loopVars>>

-----------------------------------------------------------------------------
(* The operations of the review screen *)

\* deleteDuplicatePhotos(_groupId, photoIdsToDelete): deviceDeleted is the deletedCount
\* photoService.deletePhotos returns; denied is deletePhotos throwing for lack of permission
DeleteDuplicatePhotos(photoIdsToDelete, deviceDeleted, denied) ==
    /\ pc = "idle"
    /\ photoIdsToDelete # {}
    /\ IF denied
       THEN /\ UNCHANGED photos
            /\ ret' = [op |-> "delete", success |-> FALSE, deletedCount |-> 0]
       ELSE /\ photos' = [n \in DOMAIN photos |->
                            IF n \in photoIdsToDelete
                            THEN [photos[n] EXCEPT !.is_deleted = TRUE]
                            ELSE photos[n]]
            /\ ret' = [op |-> "delete", success |-> deviceDeleted > 0,
                       deletedCount |-> deviceDeleted]
    /\ UNCHANGED <<migrationVars, connection, signalVars, duplicate_groups, duplicate_group_photos, groupSeq, analysis_sessions,
                   pc, callVars, loopVars>>

\* what the review screen lists for a group (getDuplicateGroups): its photos not deleted
LiveMembers(groupId) ==
    {n \in MembersOf(duplicate_group_photos, groupId) : ~photos[n].is_deleted}

\* databaseService.markGroupAsNotDuplicate(group.id)
MarkGroupAsNotDuplicate(groupId) ==
    /\ pc = "idle"
    /\ duplicate_group_photos' = RowsWithoutGroup(duplicate_group_photos, groupId)
    /\ duplicate_groups' = GroupsWithout(duplicate_groups, groupId)
    /\ ret' = [op |-> "reject", groupId |-> groupId]
    /\ UNCHANGED <<migrationVars, connection, signalVars, photos, groupSeq, analysis_sessions, pc, callVars, loopVars>>

-----------------------------------------------------------------------------
(* Direct calls of PerceptualHashService *)

\* characters of the strings passed as hashes: '0', 'f', 'A' and the non-hex 'g'
HashChars == {0, 15, 16, 22}

\* strings one character short of, exactly of, and one character over the hash length,
\* filled with 'f' after the leading characters
TestHashes ==
    {prefix \o [n \in 1..(len - MaxPrefix) |-> 15] :
        prefix \in [1..MaxPrefix -> HashChars],
        len \in {HashLen - 1, HashLen, HashLen + 1}}

\* the hashes the strings are compared with: 'f...f' of the hash length, and one
\* character short of it
ReferenceHashes == {[n \in 1..len |-> 15] : len \in {HashLen - 1, HashLen}}

\* perceptualHashService.isVisuallySimilar(hash1, hash2, 15): every path returns, the
\* catch block included
CallIsVisuallySimilar(hash1, hash2) ==
    /\ pc = "idle"
    /\ ret' = [op |-> "isVisuallySimilar", hash1 |-> hash1, hash2 |-> hash2,
               threw |-> FALSE, result |-> isVisuallySimilar(hash1, hash2, Threshold)]
    /\ UNCHANGED <<migrationVars, connection, signalVars, storeVars, pc, callVars, loopVars>>

\* perceptualHashService.calculateVisualSimilarity(hash1, hash2): every path returns, the
\* catch block included
CallCalculateVisualSimilarity(hash1, hash2) ==
    /\ pc = "idle"
    /\ ret' = [op |-> "calculateVisualSimilarity", hash1 |-> hash1, hash2 |-> hash2,
               threw |-> FALSE, result |-> calculateVisualSimilarity(hash1, hash2)]
    /\ UNCHANGED <<migrationVars, connection, signalVars, storeVars, pc, callVars, loopVars>>

\* perceptualHashService.normalizeHashLength(hash)
CallNormalizeHashLength(hash) ==
    /\ pc = "idle"
    /\ ret' = [op |-> "normalizeHashLength", hash |-> hash,
               result |-> normalizeHashLength(hash)]
    /\ UNCHANGED <<migrationVars, connection, signalVars, storeVars, pc, callVars, loopVars>>

-----------------------------------------------------------------------------
(* Direct calls of DatabaseService *)

\* databaseService.savePhoto of the next photo of the library, of the smallest byte size
SavePhoto(localIdentifier) ==
    /\ pc = "idle"
    /\ localIdentifier = Len(photos) + 1
    /\ photos' = savePhoto(photos,
            convertToPhotoMetadata([localIdentifier |-> localIdentifier, fileSize |-> 1],
                                   LeadingOnes(0)))
    /\ ret' = [op |-> "savePhoto"]
    /\ UNCHANGED <<migrationVars, connection, signalVars, duplicate_groups, duplicate_group_photos, groupSeq, analysis_sessions,
                   pc, callVars, loopVars>>

\* databaseService.savePhoto(photo) of any photo of the library, seen before or not, with
\* any hash or none
CallSavePhoto(localIdentifier, fileSize, hashValue) ==
    /\ pc = "idle"
    /\ LET photo == convertToPhotoMetadata(
                        [localIdentifier |-> localIdentifier, fileSize |-> fileSize],
                        hashValue)
       IN  /\ photos' = savePhoto(photos, photo)
           /\ ret' = [op |-> "savePhoto", localIdentifier |-> localIdentifier,
                      hashValue |-> hashValue, id |-> savePhotoId(photos, photo)]
    /\ UNCHANGED <<migrationVars, connection, signalVars, duplicate_groups, duplicate_group_photos, groupSeq, analysis_sessions,
                   pc, callVars, loopVars>>

\* the arguments photoIds a caller can pass: stored photos, each once, in any order
PhotoIdLists ==
    {l \in UNION {[1..n -> DOMAIN photos] : n \in 1..Len(photos)} :
        \A a, b \in DOMAIN l : a # b => l[a] # l[b]}

\* databaseService.createDuplicateGroup(groupHash, photoIds) that commits; existingIds are
\* the members the group returned had when the call began (none for a new group)
CreateDuplicateGroup(groupHash, photoIds) ==
    /\ pc = "idle"
    /\ LET after == createDuplicateGroup(groupHash, photoIds)
       IN  /\ photos' = after.photos
           /\ duplicate_groups' = after.groups
           /\ duplicate_group_photos' = after.rows
           /\ groupSeq' = after.seq
           /\ ret' = [op |-> "createGroup", groupId |-> after.id,
                      photoIds |-> Range(photoIds),
                      existingIds |-> MembersOf(duplicate_group_photos, after.id)]
    /\ UNCHANGED <<migrationVars, connection, signalVars, analysis_sessions, pc, callVars, loopVars>>

\* databaseService.createDuplicateGroup(groupHash, photoIds) in which the statement after
\* the first n writes throws
CreateDuplicateGroupFails(groupHash, photoIds, n) ==
    /\ pc = "idle"
    /\ n <= WritesOf(groupHash, photoIds)
    /\ LET after == Rollback(CurrentStore, InterruptedWrites(groupHash, photoIds, n))
       IN  /\ photos' = after.photos
           /\ duplicate_groups' = after.groups
           /\ duplicate_group_photos' = after.rows
           /\ groupSeq' = after.seq
    /\ ret' = [op |-> "createGroupError", writes |-> n]
    /\ UNCHANGED <<migrationVars, connection, signalVars, analysis_sessions, pc, callVars, loopVars>>

-----------------------------------------------------------------------------
(* Specifications *)

\* the steps of a call in progress
Run == ProcessPhoto \/ ClusterPhotos \/ PersistGroup \/ AnalyzeFinish

\* the review screen: delete some of the photos listed for a group, or reject a group
Review ==
    \/ \E groupId \in DOMAIN duplicate_groups :
        \E ids \in SUBSET LiveMembers(groupId) :
            \E deviceDeleted \in 0..Cardinality(ids), denied \in BOOLEAN :
                /\ denied => deviceDeleted = 0
                /\ DeleteDuplicatePhotos(ids, deviceDeleted, denied)
    \/ \E groupId \in DOMAIN duplicate_groups : MarkGroupAsNotDuplicate(groupId)

\* any calls, at most MaxRuns of analyzePhotos
Next ==
    \/ /\ CanAnalyze
       /\ Len(analysis_sessions) < MaxRuns
       /\ \E photoList \in Batches, clear \in BOOLEAN : AnalyzeStart(photoList, clear)
    \/ Run
    \/ Review

Spec == Init /\ [][Next]_vars

\* one analyzePhotos call on the empty store, then the review screen
NextFresh ==
    \/ /\ CanAnalyze
       /\ analysis_sessions = <<>>
       /\ \E photoList \in Batches, clear \in BOOLEAN : AnalyzeStart(photoList, clear)
    \/ Run
    \/ Review

SpecFresh == Init /\ [][NextFresh]_vars

\* one analyzePhotos call on an empty store over a larger library of photos of one byte
\* size, and then the groups marked as not duplicate on the review screen
NextShared ==
    \/ /\ CanAnalyze
       /\ analysis_sessions = <<>>
       /\ \E photoList \in SharedBatches, clear \in BOOLEAN : AnalyzeStart(photoList, clear)
    \/ Run
    \/ \E groupId \in DOMAIN duplicate_groups : MarkGroupAsNotDuplicate(groupId)

SpecShared == Init /\ [][NextShared]_vars

\* the batches of a library of MaxLibrary photos of one byte size, in the order in which
\* the library lists them
LibraryBatches ==
    UNION {
        {[n \in DOMAIN o |-> [localIdentifier |-> o[n],
                              fileSize        |-> 1,
                              visualHash      |-> hashes[n]]] :
            hashes \in [DOMAIN o -> VisualHashes]} :
        o \in {p \in UNION {[1..n -> 1..MaxLibrary] : n \in 0..MaxLibrary} :
                    \A a, b \in DOMAIN p : a < b => p[a] < p[b]}}

\* every photo of the batch that was analyzed before has the hash stored for it: the
\* image of a photo does not change between runs
SameImages(photoList) ==
    \A n \in DOMAIN photoList :
        LET id == PhotoIdOf(photos, photoList[n].localIdentifier)
        IN  id # 0 => photos[id].hash_value = photoList[n].visualHash

\* analyzePhotos calls over a library that gains and loses photos between the calls, with
\* and without clearExistingGroups, and the review screen between them
NextLibrary ==
    \/ /\ CanAnalyze
       /\ Len(analysis_sessions) < MaxRuns
       /\ \E photoList \in LibraryBatches, clear \in BOOLEAN :
            /\ SameImages(photoList)
            /\ AnalyzeStart(photoList, clear)
    \/ Run
    \/ Review

SpecLibrary == Init /\ [][NextLibrary]_vars

\* the batches of the library in the order in which it lists them, every photo of the
\* smallest byte size
ListedBatches ==
    {b \in Batches : /\ \A n \in DOMAIN b : b[n].fileSize = 1
                     /\ \A n, m \in DOMAIN b :
                            n < m => b[n].localIdentifier < b[m].localIdentifier}

\* the batches of a library of MaxRetry photos of one byte size, in the order in which the
\* library lists them
RetryBatches ==
    UNION {
        {[n \in DOMAIN o |-> [localIdentifier |-> o[n],
                              fileSize        |-> 1,
                              visualHash      |-> hashes[n]]] :
            hashes \in [DOMAIN o -> VisualHashes]} :
        o \in {p \in UNION {[1..n -> 1..MaxRetry] : n \in 0..MaxRetry} :
                    \A a, b \in DOMAIN p : a < b => p[a] < p[b]}}

\* direct calls of the two comparison functions
NextHash ==
    \E hash1 \in TestHashes, hash2 \in ReferenceHashes :
        \/ CallIsVisuallySimilar(hash1, hash2)
        \/ CallCalculateVisualSimilarity(hash1, hash2)

SpecHash == Init /\ [][NextHash]_vars

\* one character repeated, one short of and one over the hash length
RawHashes ==
    {[n \in 1..len |-> c] : c \in HashChars, len \in {HashLen - 1, HashLen + 1}}

\* batches of two photos, the first with such a string as the value calculateVisualHash
\* returned and the second with the hash 'f...f'
RawBatches ==
    {<<[localIdentifier |-> 1, fileSize |-> 1, visualHash |-> hash],
       [localIdentifier |-> 2, fileSize |-> 1, visualHash |-> [n \in 1..HashLen |-> 15]]>> :
        hash \in RawHashes}

\* direct calls of normalizeHashLength, and one analyzePhotos call on an empty store
NextNormalize ==
    \/ \E hash \in TestHashes : CallNormalizeHashLength(hash)
    \/ /\ CanAnalyze
       /\ analysis_sessions = <<>>
       /\ \E photoList \in RawBatches : AnalyzeStart(photoList, FALSE)
    \/ Run

SpecNormalize == Init /\ [][NextNormalize]_vars

\* one analyzePhotos call on an empty store over a larger library, which the user may ask
\* to stop at any point
NextCancel ==
    \/ /\ CanAnalyze
       /\ analysis_sessions = <<>>
       /\ \E photoList \in SharedBatches : AnalyzeStart(photoList, FALSE)
    \/ Run
    \/ RequestCancel

SpecCancel == Init /\ [][NextCancel]_vars

\* the photos of the batch in every order
Reordered(photoList) ==
    {[n \in DOMAIN photoList |-> photoList[p[n]]] :
        p \in {q \in [DOMAIN photoList -> DOMAIN photoList] :
                    \A a, b \in DOMAIN photoList : a # b => q[a] # q[b]}}

\* analyzePhotos over the library on an empty store, and then once more over the same
\* photos passed in any order
NextOrder ==
    \/ /\ CanAnalyze
       /\ analysis_sessions = <<>>
       /\ \E photoList \in LibraryBatches : AnalyzeStart(photoList, FALSE)
    \/ /\ CanAnalyze
       /\ Len(analysis_sessions) = 1
       /\ \E photoList \in Reordered(batch) : AnalyzeStart(photoList, FALSE)
    \/ Run

SpecOrder == Init /\ [][NextOrder]_vars

\* a first analyzePhotos call and a second one, each with or without
\* clearExistingGroups, and the review screen before, between and after them
NextReviewed ==
    \/ /\ CanAnalyze
       /\ analysis_sessions = <<>>
       /\ \E photoList \in ListedBatches, clear \in BOOLEAN : AnalyzeStart(photoList, clear)
    \/ /\ CanAnalyze
       /\ Len(analysis_sessions) = 1
       /\ \E photoList \in ListedBatches, clear \in BOOLEAN : AnalyzeStart(photoList, clear)
    \/ Run
    \/ Review

SpecReviewed == Init /\ [][NextReviewed]_vars

\* any sequence of savePhoto calls
NextPhotos ==
    \E localIdentifier \in 1..NPhotos, fileSize \in 1..MaxSize,
       hashValue \in VisualHashes \cup {<<>>} :
        CallSavePhoto(localIdentifier, fileSize, hashValue)

SpecPhotos == Init /\ [][NextPhotos]_vars

\* the keys a caller can pass to createDuplicateGroup
StoreKeys == {LeadingOnes(0), LeadingOnes(Threshold + 1)}

\* direct calls of savePhoto and createDuplicateGroup
NextStore ==
    \/ \E localIdentifier \in 1..NPhotos : SavePhoto(localIdentifier)
    \/ \E groupHash \in StoreKeys, photoIds \in PhotoIdLists :
            CreateDuplicateGroup(groupHash, photoIds)
    \/ \E groupHash \in StoreKeys, photoIds \in PhotoIdLists, n \in 0..(2 * NPhotos + 2) :
            CreateDuplicateGroupFails(groupHash, photoIds, n)

SpecStore == Init /\ [][NextStore]_vars

\* one analyzePhotos call on an empty store over a larger library, in which
\* createDuplicateGroup may throw at any of its statements
NextFaulty ==
    \/ /\ CanAnalyze
       /\ analysis_sessions = <<>>
       /\ \E photoList \in SharedBatches : AnalyzeStart(photoList, FALSE)
    \/ Run
    \/ \E n \in 0..(2 * MaxShared + 2) : PersistGroupFails(n)

SpecFaulty == Init /\ [][NextFaulty]_vars

\* analyzePhotos(photos) on an empty store and then once more over the same photos, where
\* in both runs the pass of any photo may throw
NextRetry ==
    \/ /\ CanAnalyze
       /\ analysis_sessions = <<>>
       /\ \E photoList \in RetryBatches : AnalyzeStart(photoList, FALSE)
    \/ /\ CanAnalyze
       /\ Len(analysis_sessions) = 1
       /\ AnalyzeStart(batch, FALSE)
    \/ Run
    \/ ProcessPhotoFails

SpecRetry == Init /\ [][NextRetry]_vars

\* analyzePhotos calls that may end in a whole-run error, and updateSessionAfterDeletion
\* calls between them
NextSession ==
    \/ /\ CanAnalyze
       /\ Len(analysis_sessions) < MaxRuns
       /\ \E photoList \in ListedBatches, clear \in BOOLEAN : AnalyzeStart(photoList, clear)
    \/ Run
    \/ \E updateFails \in BOOLEAN : AnalyzeFails(updateFails)
    \/ \E deletedCount \in 0..NPhotos, spaceSaved \in {0, MaxSize} :
            UpdateSessionAfterDeletion(deletedCount, spaceSaved)

SpecSession == Init /\ [][NextSession]_vars

\* analyzePhotos(photos), the review screen, and then the same photos analysed a second
\* time, with or without clearExistingGroups
NextRepeat ==
    \/ /\ CanAnalyze
       /\ analysis_sessions = <<>>
       /\ \E photoList \in Batches : AnalyzeStart(photoList, FALSE)
    \/ /\ CanAnalyze
       /\ Len(analysis_sessions) = 1
       /\ \E clear \in BOOLEAN : AnalyzeStart(batch, clear)
    \/ Run
    \/ /\ Len(analysis_sessions) = 1
       /\ Review

SpecRepeat == Init /\ [][NextRepeat]_vars

-----------------------------------------------------------------------------
(* Properties of the store *)

LiveCount(groupId) == Cardinality(LiveMembers(groupId))

\* C2: in every reachable state each group's stored member count (photo_count) equals
\* the number of its members that are not soft-deleted.
C2_CountIsLiveMembership ==
    \A g \in DOMAIN duplicate_groups : duplicate_groups[g].photo_count = LiveCount(g)

\* C3: in every reachable state each group's stored aggregate size (total_size) equals
\* the sum of the byte sizes of its members that are not soft-deleted.
C3_TotalSizeIsLiveSum ==
    \A g \in DOMAIN duplicate_groups :
        duplicate_groups[g].total_size =
            SumOver([n \in DOMAIN photos |-> photos[n].file_size], LiveMembers(g))

\* C4: in every reachable state every group of the store has at least 2 members that
\* are not soft-deleted.
C4_GroupsHaveTwoLiveMembers ==
    \A g \in DOMAIN duplicate_groups : LiveCount(g) >= 2

\* C5: in every group the member recorded as recommended-keep has a byte size greater
\* than or equal to that of every other member getDuplicateGroups returns for the group.
C5_StoredKeepIsLargest ==
    \A r \in duplicate_group_photos :
        (r.is_recommended_keep /\ ~photos[r.photo_id].is_deleted) =>
            \A m \in LiveMembers(r.group_id) :
                photos[m].file_size <= photos[r.photo_id].file_size

-----------------------------------------------------------------------------
(* Properties of the result analyzePhotos returns *)

Returned == ret.op = "analyze"

\* the byte size the returned group reports for its recommended-keep photo
KeepSizeReported(group) ==
    LET n == CHOOSE m \in DOMAIN group.photos : group.photos[m].id = group.recommendedKeepId
    IN  group.photos[n].fileSize

\* C7: potentialSpaceSaved equals the sum over the returned groups of the group's
\* aggregate size minus the byte size of its recommended-keep photo, also when a photo's
\* stored record has another byte size than the batch supplies.
C7_SpaceSavedIsSumOverGroups ==
    Returned =>
        ret.potentialSpaceSaved =
            SeqSum([n \in DOMAIN ret.duplicateGroups |->
                        ret.duplicateGroups[n].totalSize
                        - KeepSizeReported(ret.duplicateGroups[n])])

\* the byte size the batch of the call supplies for a photo
BatchSizeOf(localIdentifier) ==
    LET n == CHOOSE m \in DOMAIN batch : batch[m].localIdentifier = localIdentifier
    IN  batch[n].fileSize

\* the position, in the group's photo list (the cluster in iteration order), of the photo
\* that recommendedKeepId identifies
KeepPosition(group) ==
    CHOOSE m \in DOMAIN group.photos : group.photos[m].id = group.recommendedKeepId

\* C6: in every group analyzePhotos returns, recommendedKeepId identifies the cluster
\* member with the largest byte size (as supplied in the batch), and among several of the
\* largest size the one that comes first in the cluster's iteration order.
C6_ReturnedKeepIsFirstLargest ==
    Returned =>
        \A n \in DOMAIN ret.duplicateGroups :
            LET group == ret.duplicateGroups[n]
                SizeAt(m) == BatchSizeOf(group.photos[m].localIdentifier)
            IN  /\ \E m \in DOMAIN group.photos : group.photos[m].id = group.recommendedKeepId
                /\ \A m \in DOMAIN group.photos : SizeAt(m) <= SizeAt(KeepPosition(group))
                /\ \A m \in 1..(KeepPosition(group) - 1) : SizeAt(m) < SizeAt(KeepPosition(group))

\* a returned group in which two members share the largest byte size
C6_Witness ==
    /\ Returned
    /\ \E n \in DOMAIN ret.duplicateGroups :
        LET group == ret.duplicateGroups[n]
        IN  \E a, b \in DOMAIN group.photos :
                /\ a < b
                /\ group.recommendedKeepId = group.photos[a].id
                /\ BatchSizeOf(group.photos[a].localIdentifier)
                        = BatchSizeOf(group.photos[b].localIdentifier)

\* the Hamming distance between two fingerprints as analyzePhotos compares them
FingerprintDistance(hash1, hash2) ==
    calculateHammingDistance(hexToBinary(normalizeHashLength(hash1)),
                             hexToBinary(normalizeHashLength(hash2)))

\* every two photos of the batch have identical fingerprints or fingerprints farther apart
\* than the threshold
IdenticalOrFar ==
    \A a, b \in DOMAIN batch :
        \/ normalizeHashLength(batch[a].visualHash) = normalizeHashLength(batch[b].visualHash)
        \/ FingerprintDistance(batch[a].visualHash, batch[b].visualHash) > Threshold

\* the photos of the batch that carry the fingerprint of the photo at position a
SharingFingerprint(a) ==
    {batch[b].localIdentifier : b \in {c \in DOMAIN batch :
        normalizeHashLength(batch[c].visualHash) = normalizeHashLength(batch[a].visualHash)}}

\* the local identifiers of the photos the store links to a group
GroupLocalIdentifiers(groupId) ==
    {photos[id].local_identifier : id \in MembersOf(duplicate_group_photos, groupId)}

\* C8: a batch analysed on an empty store in which every two fingerprints are identical
\* or farther apart than the threshold yields exactly one group for each fingerprint that
\* two or more photos share, holding exactly those photos; a photo with a fingerprint of
\* its own is in no group and keeps its duplicate flag false; and duplicatesFound is the
\* sum over the groups of (photo count - 1).
C8_OneGroupPerSharedFingerprint ==
    (Returned /\ Len(analysis_sessions) = 1 /\ IdenticalOrFar) =>
        LET shared == {SharingFingerprint(a) : a \in DOMAIN batch} \ 
                            {{batch[a].localIdentifier} : a \in DOMAIN batch}
            groupIds == DOMAIN duplicate_groups
        IN  /\ \A members \in shared :
                    Cardinality({g \in groupIds : GroupLocalIdentifiers(g) = members}) = 1
            /\ Cardinality(groupIds) = Cardinality(shared)
            /\ Len(ret.duplicateGroups) = Cardinality(shared)
            /\ \A a \in DOMAIN batch :
                    SharingFingerprint(a) = {batch[a].localIdentifier} =>
                        LET id == PhotoIdOf(photos, batch[a].localIdentifier)
                        IN  /\ ~photos[id].is_duplicate
                            /\ \A g \in groupIds : id \notin MembersOf(duplicate_group_photos, g)
            /\ ret.duplicatesFound
                    = SumOver([g \in groupIds |-> duplicate_groups[g].photo_count - 1], groupIds)
            /\ ret.duplicatesFound
                    = SeqSum([n \in DOMAIN ret.duplicateGroups |->
                                    ret.duplicateGroups[n].photoCount - 1])

\* a first analysis has returned two groups, one for each of two shared fingerprints
C8_Witness ==
    /\ Returned
    /\ Len(analysis_sessions) = 1
    /\ IdenticalOrFar
    /\ Cardinality(DOMAIN duplicate_groups) >= 2
    /\ ret.duplicatesFound >= 2

\* both photos of a batch of two have a live row in the store
BothLive ==
    /\ Len(batch) = 2
    /\ \A a \in DOMAIN batch :
            LET id == PhotoIdOf(photos, batch[a].localIdentifier)
            IN  id \in DOMAIN photos /\ ~photos[id].is_deleted

\* analyzePhotos has returned a group that holds both photos of the batch
GroupedTogether ==
    \E n \in DOMAIN ret.duplicateGroups :
        {ret.duplicateGroups[n].photos[m].localIdentifier :
                m \in DOMAIN ret.duplicateGroups[n].photos}
            = {batch[a].localIdentifier : a \in DOMAIN batch}

\* C9: for a batch of two photos that both have a live row, analyzePhotos groups them
\* when their fingerprints are exactly Threshold bits apart and does not group them when
\* they are Threshold + 1 bits apart.
C9_ThresholdIsInclusive ==
    (Returned /\ BothLive) =>
        LET distance == FingerprintDistance(batch[1].visualHash, batch[2].visualHash)
        IN  /\ distance = Threshold => GroupedTogether
            /\ distance = Threshold + 1 => ~GroupedTogether

\* two photos exactly Threshold bits apart have been returned in one group
C9_Witness ==
    /\ Returned
    /\ BothLive
    /\ FingerprintDistance(batch[1].visualHash, batch[2].visualHash) = Threshold
    /\ GroupedTogether

\* the store holds no group, no membership row and no photo flagged as duplicate
NothingGrouped ==
    /\ DOMAIN duplicate_groups = {}
    /\ duplicate_group_photos = {}
    /\ \A id \in DOMAIN photos : ~photos[id].is_duplicate

\* C10: in a run started with clearExistingGroups = true, no group, no membership row
\* and no duplicate flag exists when the first photo of the run is about to be
\* fingerprinted or (for an empty batch) clustering is about to start; and when the run
\* returns, the groups in the store are exactly those this run created.
C10_ClearLeavesOnlyNewGroups ==
    /\ (clearExistingGroups /\ pc \in {"save", "cluster"} /\ analyzedCount = 0) => NothingGrouped
    /\ (clearExistingGroups /\ Returned) => DOMAIN duplicate_groups = createdGroups

\* a run with clearExistingGroups = true has removed the groups of an earlier run and
\* returned with a group of its own
C10_Witness ==
    /\ clearExistingGroups
    /\ Returned
    /\ createdGroups # {}
    /\ groupSeq > Cardinality(createdGroups)

\* the keys of the groups in the store
GroupKeys == {duplicate_groups[g].group_hash : g \in DOMAIN duplicate_groups}

\* the member count each group of the store records
GroupCounts == [g \in DOMAIN duplicate_groups |-> duplicate_groups[g].photo_count]

\* C1: while analyzePhotos runs a second time over the same photos with the same hashes,
\* without clearing and with nothing done in between, no step changes the set of group
\* keys, the member count of any group, or the membership rows.
C1_RerunAddsNothing ==
    [][(rerun /\ pc # "idle") =>
            /\ GroupKeys' = GroupKeys
            /\ GroupCounts' = GroupCounts
            /\ duplicate_group_photos' = duplicate_group_photos]_vars

\* the second run over the same photos has gone through the merge into an existing group
\* and returned it
C1_Witness ==
    /\ rerun
    /\ Returned
    /\ ret.duplicateGroups # <<>>
    /\ DOMAIN duplicate_groups # {}


-----------------------------------------------------------------------------
(* Properties of the review operations and of the sessions *)

\* C11: a step of markGroupAsNotDuplicate(id) removes the group id and exactly its
\* membership rows, so the group is no longer among the groups of the store, and leaves
\* every other group, the other membership rows and every row of photos (the duplicate
\* flags of the removed group's members included) as they were.
C11_RejectRemovesOnlyTheGroup ==
    [][(ret'.op = "reject" /\ ret' # ret) =>
            LET id == ret'.groupId
            IN  /\ id \in DOMAIN duplicate_groups
                /\ DOMAIN duplicate_groups' = DOMAIN duplicate_groups \ {id}
                /\ \A g \in DOMAIN duplicate_groups' : duplicate_groups'[g] = duplicate_groups[g]
                /\ duplicate_group_photos'
                        = {r \in duplicate_group_photos : r.group_id # id}
                /\ photos' = photos]_vars

\* a group has been marked as not duplicate while another group is in the store, and a
\* member of the removed group still carries its duplicate flag
C11_Witness ==
    /\ ret.op = "reject"
    /\ DOMAIN duplicate_groups # {}
    /\ \E id \in DOMAIN photos :
            /\ photos[id].is_duplicate
            /\ \A g \in DOMAIN duplicate_groups : id \notin MembersOf(duplicate_group_photos, g)


\* C12: once a session has left the status running, no later step changes any of its
\* fields.
C12_TerminalSessionsAreImmutable ==
    [][\A n \in DOMAIN analysis_sessions :
            analysis_sessions[n].status # "running" =>
                analysis_sessions'[n] = analysis_sessions[n]]_vars

\* C13: when analyzePhotos has ended with a whole-run error after creating its session,
\* and the store accepted the update of the catch block, the session of that run has the
\* status error and an error message.
C13_FailedRunMarksSessionError ==
    (ret.op = "analyzeError" /\ ~ret.updateFailed) =>
        /\ analysis_sessions[ret.sessionUuid].status = "error"
        /\ analysis_sessions[ret.sessionUuid].error_message # "none"


-----------------------------------------------------------------------------
(* Properties of runs in which a step fails *)

\* the local identifiers of the photos a returned group lists
ReturnedLocalIdentifiers(group) ==
    {group.photos[m].localIdentifier : m \in DOMAIN group.photos}

\* a photo whose pass failed is in no cluster and in no returned group, and the session
\* of the run is completed with an analyzed count that leaves the failed photos out
FailedPhotosLeftOut ==
    /\ pc \in {"persist", "finish"} =>
            \A n \in DOMAIN confirmedDuplicates : \A m \in DOMAIN confirmedDuplicates[n] :
                confirmedDuplicates[n][m].localIdentifier \notin failedPhotos
    /\ Returned =>
            /\ \A n \in DOMAIN ret.duplicateGroups :
                    ReturnedLocalIdentifiers(ret.duplicateGroups[n]) \cap failedPhotos = {}
            /\ analysis_sessions[Len(analysis_sessions)].status = "completed"
            /\ analysis_sessions[Len(analysis_sessions)].analyzed_photos
                    = Len(batch) - Cardinality(failedPhotos)

\* C14 as stated: when the run has returned, a photo whose pass failed is a member of no
\* group that this run created or extended.
C14_FailedPhotoInNoTouchedGroup ==
    Returned =>
        \A lid \in failedPhotos :
            \A g \in (createdGroups \cup extendedGroups) \cap DOMAIN duplicate_groups :
                PhotoIdOf(photos, lid) \notin MembersOf(duplicate_group_photos, g)

\* C14, amended: when the pass of a photo fails, the run goes on and completes; the photo
\* is in no cluster and in no returned group, no step of the run adds a membership row for
\* it, and it is not counted in the session's analyzed photos. (It stays a member of a
\* group it joined in an earlier run, also when this run extends that group.)
C14_FailedPhotoGetsNoMembership ==
    /\ []FailedPhotosLeftOut
    /\ [][\A r \in duplicate_group_photos' \ duplicate_group_photos :
                photos'[r.photo_id].local_identifier \notin failedPhotos']_vars

\* a run has returned a group although the pass of a photo that has a live row in the
\* store failed
C14_Witness ==
    /\ Returned
    /\ ret.duplicateGroups # <<>>
    /\ \E lid \in failedPhotos :
            /\ PhotoIdOf(photos, lid) # 0
            /\ ~photos[PhotoIdOf(photos, lid)].is_deleted


\* the local identifiers of the photos of a cluster
ClusterLocalIdentifiers(duplicateSet) ==
    {duplicateSet[m].localIdentifier : m \in DOMAIN duplicateSet}

\* C15: when createDuplicateGroup throws for a cluster, the loop still goes through every
\* later cluster: at the end of the loop every cluster has either failed or has its group
\* among the groups to return; the run returns with its session completed; and the failed
\* clusters contribute nothing to the returned groups, to duplicatesFound or to
\* potentialSpaceSaved.
C15_FailedClusterIsSkipped ==
    /\ pc = "finish" =>
            /\ k = Len(confirmedDuplicates) + 1
            /\ Len(duplicateGroups) + Cardinality(failedClusters) = Len(confirmedDuplicates)
            /\ \A n \in DOMAIN confirmedDuplicates :
                    \/ ClusterLocalIdentifiers(confirmedDuplicates[n]) \in failedClusters
                    \/ \E m \in DOMAIN duplicateGroups :
                            ReturnedLocalIdentifiers(duplicateGroups[m])
                                = ClusterLocalIdentifiers(confirmedDuplicates[n])
    /\ Returned =>
            /\ analysis_sessions[Len(analysis_sessions)].status = "completed"
            /\ \A c \in failedClusters : \A n \in DOMAIN ret.duplicateGroups :
                    ReturnedLocalIdentifiers(ret.duplicateGroups[n]) \cap c = {}
            /\ ret.duplicatesFound
                    = SeqSum([n \in DOMAIN ret.duplicateGroups |->
                                    ret.duplicateGroups[n].photoCount - 1])
            /\ ret.potentialSpaceSaved
                    = SeqSum([n \in DOMAIN ret.duplicateGroups |->
                                ret.duplicateGroups[n].totalSize
                                - BatchSizeOf(ret.duplicateGroups[n].photos[
                                    KeepPosition(ret.duplicateGroups[n])].localIdentifier)])
            /\ analysis_sessions[Len(analysis_sessions)].duplicates_found
                    = ret.duplicatesFound

\* a run has returned the group of a cluster that came after a cluster whose
\* createDuplicateGroup threw
C15_Witness ==
    /\ Returned
    /\ \E c \in failedClusters : \E n \in DOMAIN ret.duplicateGroups :
            \E first \in c :
                \A b \in ReturnedLocalIdentifiers(ret.duplicateGroups[n]) : first < b


-----------------------------------------------------------------------------
(* Properties of createDuplicateGroup *)

\* every group has a membership row for each member it counts, every member carries the
\* duplicate flag, and the aggregate size is that of the members
GroupsAreWhole ==
    \A g \in DOMAIN duplicate_groups :
        /\ duplicate_groups[g].photo_count
                = Cardinality(MembersOf(duplicate_group_photos, g))
        /\ \A id \in MembersOf(duplicate_group_photos, g) : photos[id].is_duplicate
        /\ duplicate_groups[g].total_size
                = LiveTotalSize(photos, duplicate_group_photos, g)

\* C16: a createDuplicateGroup call that fails at any of its statements leaves the group
\* rows, the membership rows, the counts, the aggregate sizes and the duplicate flags as
\* they were before the call; and in every state between calls each group has all its
\* membership rows and flags.
C16_GroupPersistenceIsAtomic ==
    /\ []GroupsAreWhole
    /\ [][ret'.op = "createGroupError" =>
                /\ duplicate_groups' = duplicate_groups
                /\ duplicate_group_photos' = duplicate_group_photos
                /\ groupSeq' = groupSeq
                /\ photos' = photos]_vars

\* a createDuplicateGroup call has failed after writing a group row, a membership row and
\* a flag, while another group is in the store
C16_Witness ==
    /\ ret.op = "createGroupError"
    /\ ret.writes >= 3
    /\ DOMAIN duplicate_groups # {}


-----------------------------------------------------------------------------
(* Properties of PerceptualHashService *)

\* a string that is not 64 characters long or has a character that is not a hex digit
Malformed(hash) == Len(hash) # HashLen \/ \E n \in DOMAIN hash : ~IsHexChar(hash[n])

\* C17: isVisuallySimilar and calculateVisualSimilarity fail with an error when either
\* argument is a malformed fingerprint; they return no verdict for it.
C17_MalformedFingerprintIsRejected ==
    (/\ ret.op \in {"isVisuallySimilar", "calculateVisualSimilarity"}
     /\ Malformed(ret.hash1) \/ Malformed(ret.hash2))
        => ret.threw

\* 64 lowercase hex characters
IsNormalized(hash) == Len(hash) = HashLen /\ \A n \in DOMAIN hash : hash[n] \in 0..15

\* C18: normalizeHashLength returns exactly 64 lowercase hex characters for every input,
\* applying it to its own result changes nothing, and every hash analyzePhotos stores has
\* this form.
C18_NormalizedHashes ==
    /\ ret.op = "normalizeHashLength" =>
            /\ IsNormalized(ret.result)
            /\ normalizeHashLength(ret.result) = ret.result
    /\ \A id \in DOMAIN photos : IsNormalized(photos[id].hash_value)

\* after a run has stored a photo whose raw hash was malformed, normalizeHashLength has
\* returned for an overlong string with an upper-case and a non-hex character
C18_Witness ==
    /\ ret.op = "normalizeHashLength"
    /\ Len(ret.hash) > HashLen
    /\ \E n \in DOMAIN ret.hash : ret.hash[n] \in 16..21
    /\ \E n \in DOMAIN ret.hash : ~IsHexChar(ret.hash[n])
    /\ \E id \in DOMAIN photos : \E n \in DOMAIN batch :
            /\ batch[n].localIdentifier = photos[id].local_identifier
            /\ Malformed(batch[n].visualHash)


\* the membership rows of a group
RowsOf(rows, groupId) == {r \in rows : r.group_id = groupId}

\* the members of a group that are recommended to keep
KeepOf(rows, groupId) == {r.photo_id : r \in {q \in RowsOf(rows, groupId) : q.is_recommended_keep}}

\* C19: a createDuplicateGroup call whose key matches an existing group adds exactly the
\* supplied photos that are not yet members, each with one row; the count grows by the
\* number added, the added photos carry the duplicate flag, and the rows that existed and
\* the recommended-keep choice are unchanged.
C19_MergeAddsOnlyNewMembers ==
    [][(ret'.op = "createGroup" /\ ret'.groupId \in DOMAIN duplicate_groups) =>
        LET g     == ret'.groupId
            added == ret'.photoIds \ MembersOf(duplicate_group_photos, g)
        IN  /\ MembersOf(duplicate_group_photos', g)
                    = MembersOf(duplicate_group_photos, g) \cup added
            /\ \A id \in added :
                    Cardinality({r \in RowsOf(duplicate_group_photos', g) : r.photo_id = id}) = 1
            /\ duplicate_group_photos \subseteq duplicate_group_photos'
            /\ duplicate_group_photos' \ RowsOf(duplicate_group_photos', g)
                    = duplicate_group_photos \ RowsOf(duplicate_group_photos, g)
            /\ duplicate_groups'[g].photo_count
                    = duplicate_groups[g].photo_count + Cardinality(added)
            /\ \A id \in added : photos'[id].is_duplicate
            /\ KeepOf(duplicate_group_photos', g) = KeepOf(duplicate_group_photos, g)]_vars

\* a call has returned an existing group after being given one of its members and a photo
\* that was not a member
C19_Witness ==
    /\ ret.op = "createGroup"
    /\ ret.existingIds \cap ret.photoIds # {}
    /\ ret.photoIds \ ret.existingIds # {}


-----------------------------------------------------------------------------
(* Membership across groups *)

\* the groups that have a membership row for the photo
GroupsOfPhoto(id) == {r.group_id : r \in {q \in duplicate_group_photos : q.photo_id = id}}

\* C20: in every reachable state each photo is a member of at most one duplicate group.
C20_PhotoInAtMostOneGroup ==
    \A id \in DOMAIN photos : Cardinality(GroupsOfPhoto(id)) <= 1


-----------------------------------------------------------------------------
(* Properties of savePhoto *)

\* no two rows of photos have the same local_identifier
OneRecordPerIdentifier ==
    \A a, b \in DOMAIN photos :
        photos[a].local_identifier = photos[b].local_identifier => a = b

\* C21: after any sequence of savePhoto calls the store holds at most one photo record per
\* library identifier; a savePhoto call for an identifier that is already stored returns
\* the id of the stored record, inserts no record, and writes the supplied hash to that
\* record and to no other.
C21_SavePhotoKeepsOneRecord ==
    /\ []OneRecordPerIdentifier
    /\ [][(ret'.op = "savePhoto" /\ PhotoIdOf(photos, ret'.localIdentifier) # 0) =>
            LET existingId == PhotoIdOf(photos, ret'.localIdentifier)
            IN  /\ ret'.id = existingId
                /\ Len(photos') = Len(photos)
                /\ ret'.hashValue # <<>> => photos'[existingId].hash_value = ret'.hashValue
                /\ \A id \in DOMAIN photos : id # existingId => photos'[id] = photos[id]]_vars

\* savePhoto has returned the id of a record stored earlier, after writing a hash that
\* differs from the one another record carries
C21_Witness ==
    /\ ret.op = "savePhoto"
    /\ ret.id < Len(photos)
    /\ photos[ret.id].local_identifier = ret.localIdentifier
    /\ photos[ret.id].hash_value = ret.hashValue
    /\ photos[Len(photos)].hash_value # ret.hashValue


-----------------------------------------------------------------------------
(* The duplicate flag *)

\* C22: the duplicate flag of a photo goes from true to false only in a step that rejects
\* its group or deletes the photo; no analyzePhotos step, savePhoto or createDuplicateGroup
\* resets it.
C22_FlagResetOnlyByRejectOrDelete ==
    [][\A id \in DOMAIN photos :
            (photos[id].is_duplicate /\ ~photos'[id].is_duplicate)
                => ret'.op \in {"reject", "delete"}]_vars


\* the step is the start of an analyzePhotos call with clearExistingGroups
ClearStep == pc = "idle" /\ pc' # "idle" /\ clearExistingGroups'

\* C22 as the code has it: the duplicate flag of a photo goes from true to false only in
\* the clearAllDuplicateGroups step of an analyzePhotos call with clearExistingGroups; no
\* other step of analyzePhotos, and neither rejection of a group nor deletion of a photo,
\* resets it.
C22_FlagResetOnlyByClear ==
    [][\A id \in DOMAIN photos :
            (photos[id].is_duplicate /\ ~photos'[id].is_duplicate) => ClearStep]_vars

\* a run with clearExistingGroups has started after a run that found duplicates, and no
\* photo carries the flag
C22_Witness ==
    /\ pc = "save"
    /\ clearExistingGroups
    /\ Len(analysis_sessions) = 2
    /\ analysis_sessions[1].duplicates_found > 0
    /\ \A id \in DOMAIN photos : ~photos[id].is_duplicate /\ ~photos[id].is_deleted


-----------------------------------------------------------------------------
(* Cancellation *)

\* C23: once cancellation of a run is signalled, no further photo is fingerprinted and
\* saved and no further group is persisted (the store stays as the last committed group
\* left it).
C23_NoWorkAfterCancel ==
    [][cancelRequested =>
            /\ photos' = photos
            /\ duplicate_groups' = duplicate_groups
            /\ duplicate_group_photos' = duplicate_group_photos]_vars


-----------------------------------------------------------------------------
(* Clustering *)

\* the photos of a sequence in ascending order of localIdentifier
SortByIdentifier(photoList) ==
    [n \in DOMAIN photoList |->
        CHOOSE p \in Range(photoList) :
            Cardinality({q \in Range(photoList) :
                            q.localIdentifier < p.localIdentifier}) = n - 1]

\* the clusters as sets of localIdentifiers
ClusterSets(clusters) == {ClusterLocalIdentifiers(clusters[n]) : n \in DOMAIN clusters}

\* C24: for a fixed store content and a fixed set of batch photos the clusters of a run
\* are the same whatever the order of the photos in the batch: they are the clusters the
\* run produces when it is given the photos in one fixed order.
C24_ClustersIndependentOfBatchOrder ==
    pc \in {"persist", "finish"} =>
        ClusterSets(confirmedDuplicates)
            = ClusterSets(Clusters(SortByIdentifier(photoMap), photoMetadataCache))


\* the photos at positions a and b of the iteration order have hashes within the threshold
SimilarAt(a, b) ==
    isVisuallySimilar(getPhotoHashFromCache(photoMetadataCache, photoMap[a]),
                      getPhotoHashFromCache(photoMetadataCache, photoMap[b]), Threshold)

RECURSIVE IsSeed(_)
\* the photo at position n starts a similarGroup: no seed before it is within the threshold
IsSeed(n) == \A m \in 1..(n - 1) : IsSeed(m) => ~SimilarAt(m, n)

\* the position of a photo in the iteration order
PositionOf(photo) ==
    CHOOSE n \in DOMAIN photoMap : photoMap[n].localIdentifier = photo.localIdentifier

\* C25: the clusters of a run are pairwise disjoint; every member of a cluster is within
\* the threshold of the cluster's first member, its seed; and every other member belongs
\* to the cluster of the earliest seed in iteration order that is within the threshold of
\* it.
C25_SeedExpansion ==
    pc \in {"persist", "finish"} =>
        /\ \A a, b \in DOMAIN confirmedDuplicates :
                a # b => ClusterLocalIdentifiers(confirmedDuplicates[a])
                            \cap ClusterLocalIdentifiers(confirmedDuplicates[b]) = {}
        /\ \A a \in DOMAIN confirmedDuplicates :
                LET cluster == confirmedDuplicates[a]
                    seed    == PositionOf(cluster[1])
                IN  /\ IsSeed(seed)
                    /\ \A m \in 2..Len(cluster) :
                            LET member == PositionOf(cluster[m])
                            IN  /\ SimilarAt(seed, member)
                                /\ ~IsSeed(member)
                                /\ \A s \in DOMAIN photoMap :
                                        (IsSeed(s) /\ SimilarAt(s, member)) => seed <= s

\* a member of a cluster is within the threshold of a seed other than its cluster's
C25_Witness ==
    /\ pc = "persist"
    /\ \E a \in DOMAIN confirmedDuplicates :
            \E m \in 2..Len(confirmedDuplicates[a]), s \in DOMAIN photoMap :
                /\ IsSeed(s)
                /\ s # PositionOf(confirmedDuplicates[a][1])
                /\ SimilarAt(s, PositionOf(confirmedDuplicates[a][m]))


\* the group key the run derives for a cluster
KeyOfCluster(duplicateSet) ==
    GroupHashOf([n \in DOMAIN duplicateSet |->
                    photoMetadataCache[duplicateSet[n].localIdentifier]])

\* C26: within one run, two processed photos with identical hashes are in the same
\* cluster; no two clusters of the run have the same group key; and the cluster about to
\* be persisted never has the key of a group created earlier in the run.
C26_OneClusterPerHash ==
    pc \in {"persist", "finish"} =>
        /\ \A a, b \in DOMAIN photoMap :
                (a # b /\ getPhotoHashFromCache(photoMetadataCache, photoMap[a])
                            = getPhotoHashFromCache(photoMetadataCache, photoMap[b]))
                    => \E c \in DOMAIN confirmedDuplicates :
                            {photoMap[a].localIdentifier, photoMap[b].localIdentifier}
                                \subseteq ClusterLocalIdentifiers(confirmedDuplicates[c])
        /\ \A c, d \in DOMAIN confirmedDuplicates :
                c # d => KeyOfCluster(confirmedDuplicates[c])
                            # KeyOfCluster(confirmedDuplicates[d])
        /\ pc = "persist" =>
                \A g \in createdGroups \cap DOMAIN duplicate_groups :
                    duplicate_groups[g].group_hash # KeyOfCluster(confirmedDuplicates[k])

\* a run has two clusters, the first persisted as a new group and the second about to be
\* persisted, and one of them has two photos with the same hash
C26_Witness ==
    /\ pc = "persist"
    /\ Len(confirmedDuplicates) = 2
    /\ k = 2
    /\ createdGroups # {}
    /\ \E c \in DOMAIN confirmedDuplicates :
            \E a, b \in DOMAIN confirmedDuplicates[c] :
                /\ a # b
                /\ getPhotoHashFromCache(photoMetadataCache, confirmedDuplicates[c][a])
                    = getPhotoHashFromCache(photoMetadataCache, confirmedDuplicates[c][b])


-----------------------------------------------------------------------------
(* Deletion *)

\* the photos that are soft-deleted by the step
NewlyDeleted == {id \in DOMAIN photos : ~photos[id].is_deleted /\ photos'[id].is_deleted}

\* C27: a deleteDuplicatePhotos call soft-deletes no more photos than the device library
\* reported as deleted (the deletedCount the call returns), and no other step soft-deletes
\* a photo.
C27_SoftDeleteOnlyWhatDeviceDeleted ==
    [][Cardinality(NewlyDeleted)
            <= (IF ret'.op = "delete" THEN ret'.deletedCount ELSE 0)]_vars


-----------------------------------------------------------------------------
(* DatabaseService calls interleaved at their awaits on the one connection *)

\* the largest number of group rows the interleaved calls insert
MaxInserts == 2

\* INSERT INTO duplicate_group_photos and UPDATE photos SET is_duplicate = TRUE, once per
\* photo id, in the order of the loop
RowStatements(ids, keepFirst) ==
    [n \in 1..(2 * Len(ids)) |->
        [op    |-> IF n % 2 = 1 THEN "insertRow" ELSE "flag",
         photo |-> ids[(n + 1) \div 2],
         keep  |-> keepFirst /\ IsRecommendedKeep((n + 1) \div 2),
         hash  |-> <<>>,
         value |-> 0]]

\* the statements createDuplicateGroup(groupHash, photoIds) writes after its BEGIN TRANSACTION
\* and its SELECTs, in order
StatementsOf(groupHash, photoIds) ==
    IF \E g \in DOMAIN duplicate_groups : duplicate_groups[g].group_hash = groupHash
    THEN LET existingId  == CHOOSE g \in DOMAIN duplicate_groups :
                                duplicate_groups[g].group_hash = groupHash
             existingIds == MembersOf(duplicate_group_photos, existingId)
             newPhotoIds == SelectSeq(photoIds, LAMBDA id : NotYetMember(existingIds, id))
         IN  IF Len(newPhotoIds) > 0
             THEN RowStatements(newPhotoIds, FALSE) \o
                  <<[op |-> "count", photo |-> 0, keep |-> FALSE, hash |-> <<>>,
                     value |-> NewPhotoCount(duplicate_groups[existingId].photo_count,
                                             Len(newPhotoIds))],
                    [op |-> "totalSize", photo |-> 0, keep |-> FALSE, hash |-> <<>>,
                     value |-> 0]>>
             ELSE <<>>
    ELSE <<[op |-> "insertGroup", photo |-> 0, keep |-> FALSE, hash |-> groupHash,
            value |-> Len(photoIds)]>> \o
         RowStatements(photoIds, TRUE) \o
         <<[op |-> "totalSize", photo |-> 0, keep |-> FALSE, hash |-> <<>>, value |-> 0]>>

\* the store after one statement of createDuplicateGroup; groupId is existingId or the
\* lastInsertRowId of the INSERT INTO duplicate_groups. No PRAGMA foreign_keys is issued, so
\* a membership row of a group that is not in the table is inserted as any other
ApplyStatement(store, stmt, groupId) ==
    CASE stmt.op = "insertGroup" ->
            [store EXCEPT !.seq = store.seq + 1,
                          !.groups = [g \in DOMAIN store.groups \cup {store.seq + 1} |->
                                        IF g = store.seq + 1
                                        THEN [group_hash |-> stmt.hash,
                                              photo_count |-> stmt.value, total_size |-> 0]
                                        ELSE store.groups[g]]]
      [] stmt.op = "insertRow" ->
            [store EXCEPT !.rows = store.rows \cup
                            {[group_id |-> groupId, photo_id |-> stmt.photo,
                              is_recommended_keep |-> stmt.keep]}]
      [] stmt.op = "flag" ->
            [store EXCEPT !.photos = MarkDuplicate(store.photos, {stmt.photo})]
      [] stmt.op = "count" ->
            IF groupId \in DOMAIN store.groups
            THEN [store EXCEPT !.groups = [store.groups EXCEPT ![groupId].photo_count =
                                                stmt.value]]
            ELSE store
      [] stmt.op = "totalSize" ->
            IF groupId \in DOMAIN store.groups
            THEN [store EXCEPT !.groups = updateGroupTotalSize(store.groups, store.photos,
                                                               store.rows, groupId)]
            ELSE store

\* the value COMMIT without a transaction leaves a createDuplicateGroup call with: COMMIT
\* throws, and so does the ROLLBACK of the catch block
CommitThrows(inTransaction) == ~inTransaction

\* createDuplicateGroup up to its first write: BEGIN TRANSACTION and the SELECTs
BeginCreateDuplicateGroup(groupHash, photoIds) ==
    /\ pc = "idle"
    /\ ~connection.suspended
    /\ groupSeq < MaxInserts
    /\ \A g \in DOMAIN duplicate_groups : duplicate_groups[g].photo_count <= NPhotos
    /\ connection' =
            [inTransaction |-> TRUE, suspended |-> TRUE,
             plan |-> StatementsOf(groupHash, photoIds), written |-> 0,
             groupId |-> IF \E g \in DOMAIN duplicate_groups :
                                duplicate_groups[g].group_hash = groupHash
                         THEN CHOOSE g \in DOMAIN duplicate_groups :
                                duplicate_groups[g].group_hash = groupHash
                         ELSE 0,
             snapshot |-> CurrentStore]
    /\ UNCHANGED <<migrationVars, storeVars, pc, callVars, loopVars, ret, signalVars>>

\* UNIQUE(group_id, photo_id): the INSERT INTO duplicate_group_photos of a row that is in
\* the table throws
RowIsTaken(stmt, groupId) ==
    /\ stmt.op = "insertRow"
    /\ \E r \in duplicate_group_photos : r.group_id = groupId /\ r.photo_id = stmt.photo

\* the next awaited write of the suspended createDuplicateGroup, or its catch block when
\* the write throws
WriteCreateDuplicateGroup ==
    /\ connection.suspended
    /\ connection.written < Len(connection.plan)
    /\ LET stmt  == connection.plan[connection.written + 1]
           after == IF ~RowIsTaken(stmt, connection.groupId)
                    THEN ApplyStatement(CurrentStore, stmt, connection.groupId)
                    ELSE IF connection.inTransaction
                         THEN Rollback(connection.snapshot, CurrentStore)
                         ELSE CurrentStore
       IN  /\ photos' = after.photos
           /\ duplicate_groups' = after.groups
           /\ duplicate_group_photos' = after.rows
           /\ groupSeq' = after.seq
           /\ connection' =
                IF RowIsTaken(stmt, connection.groupId)
                THEN NoTransaction
                ELSE [connection EXCEPT
                        !.written = @ + 1,
                        !.groupId = IF stmt.op = "insertGroup" THEN after.seq ELSE @]
           /\ ret' = IF RowIsTaken(stmt, connection.groupId)
                     THEN [op |-> "createGroupEnded", groupId |-> connection.groupId,
                           threw |-> TRUE,
                           photoIds |-> {connection.plan[n].photo :
                                            n \in 1..Len(connection.plan)} \ {0}]
                     ELSE ret
    /\ UNCHANGED <<migrationVars, analysis_sessions, pc, callVars, loopVars, signalVars>>

\* the COMMIT of the suspended createDuplicateGroup, or its catch block when COMMIT throws
EndCreateDuplicateGroup ==
    /\ connection.suspended
    /\ connection.written = Len(connection.plan)
    /\ ret' = [op |-> "createGroupEnded", groupId |-> connection.groupId,
               threw |-> CommitThrows(connection.inTransaction),
               photoIds |-> {connection.plan[n].photo : n \in 1..Len(connection.plan)} \ {0}]
    /\ connection' = NoTransaction
    /\ UNCHANGED <<migrationVars, storeVars, pc, callVars, loopVars, signalVars>>

\* markGroupAsNotDuplicate(groupId) invoked while createDuplicateGroup is suspended: its
\* BEGIN TRANSACTION throws inside a transaction and its catch block runs ROLLBACK
MarkGroupAsNotDuplicateMeanwhile(groupId) ==
    /\ connection.suspended
    /\ LET after == IF connection.inTransaction
                    THEN Rollback(connection.snapshot, CurrentStore)
                    ELSE [CurrentStore EXCEPT
                            !.rows = RowsWithoutGroup(duplicate_group_photos, groupId),
                            !.groups = GroupsWithout(duplicate_groups, groupId)]
       IN  /\ photos' = after.photos
           /\ duplicate_groups' = after.groups
           /\ duplicate_group_photos' = after.rows
           /\ groupSeq' = after.seq
    /\ ret' = [op |-> "rejectMeanwhile", groupId |-> groupId,
               threw |-> connection.inTransaction, photoIds |-> {}]
    /\ connection' = [connection EXCEPT !.inTransaction = FALSE]
    /\ UNCHANGED <<migrationVars, analysis_sessions, pc, callVars, loopVars, signalVars>>

\* clearAllDuplicateGroups() invoked while createDuplicateGroup is suspended
ClearAllDuplicateGroupsMeanwhile ==
    /\ connection.suspended
    /\ LET after == IF connection.inTransaction
                    THEN Rollback(connection.snapshot, CurrentStore)
                    ELSE [CurrentStore EXCEPT
                            !.photos = ResetDuplicateFlags(photos),
                            !.rows = {},
                            !.groups = NoGroups]
       IN  /\ photos' = after.photos
           /\ duplicate_groups' = after.groups
           /\ duplicate_group_photos' = after.rows
           /\ groupSeq' = after.seq
    /\ ret' = [op |-> "clearMeanwhile", groupId |-> 0,
               threw |-> connection.inTransaction, photoIds |-> {}]
    /\ connection' = [connection EXCEPT !.inTransaction = FALSE]
    /\ UNCHANGED <<migrationVars, analysis_sessions, pc, callVars, loopVars, signalVars>>

\* savePhoto calls, and createDuplicateGroup calls of one key during which
\* markGroupAsNotDuplicate or clearAllDuplicateGroups may be invoked
NextInterleaved ==
    \/ /\ ~connection.suspended
       /\ \E localIdentifier \in 1..NPhotos : SavePhoto(localIdentifier)
    \/ \E photoIds \in PhotoIdLists :
            BeginCreateDuplicateGroup(LeadingOnes(0), photoIds)
    \/ WriteCreateDuplicateGroup
    \/ EndCreateDuplicateGroup
    \/ \E groupId \in 1..MaxInserts : MarkGroupAsNotDuplicateMeanwhile(groupId)
    \/ ClearAllDuplicateGroupsMeanwhile

SpecInterleaved == Init /\ [][NextInterleaved]_vars

\* the step in which the ROLLBACK of an operation invoked meanwhile ends the transaction
\* of the suspended createDuplicateGroup
RollbackByOther ==
    connection.suspended /\ connection.inTransaction /\ ~connection'.inTransaction
        /\ connection'.suspended

\* every membership row belongs to a group of the table
RowsHaveGroups == \A r \in duplicate_group_photos : r.group_id \in DOMAIN duplicate_groups

\* C28: when markGroupAsNotDuplicate or clearAllDuplicateGroups is invoked while a
\* createDuplicateGroup call is suspended between its BEGIN and its COMMIT, the ROLLBACK of
\* the one discards no write of the other, and a createDuplicateGroup call that ends by
\* throwing leaves none of its writes in the store (no membership row without its group).
C28_InterleavedCallsStayAtomic ==
    /\ [][RollbackByOther => CurrentStore' = CurrentStore]_vars
    /\ [](ret.op = "createGroupEnded" /\ ret.threw => RowsHaveGroups)


-----------------------------------------------------------------------------
(* Progress reporting of analyzePhotos *)

\* a <= b for two progress values
AtMost(a, b) == a.num * b.den <= b.num * a.den

\* C29: the values a run passes to onProgress never decrease: each value delivered is at
\* least every value delivered before it in the same run, with or without the clearing step.
C29_ProgressNeverDecreases ==
    \A a, b \in DOMAIN progress : a < b => AtMost(progress[a], progress[b])


-----------------------------------------------------------------------------
(* MigrationService *)

\* this.migrations: version and name of each migration, and whether it has a down step
MigrationList ==
    <<[version |-> 1, name |-> "initial_schema", hasDown |-> FALSE],
      [version |-> 2, name |-> "add_photo_quality_indexes", hasDown |-> TRUE]>>

\* the migration of a version
MigrationOf(version) ==
    CHOOSE m \in Range(MigrationList) : m.version = version

Largest(S) == CHOOSE v \in S : \A w \in S : w <= v

Smallest(S) == CHOOSE v \in S : \A w \in S : v <= w

\* SELECT MAX(version) as version FROM migrations, or 0
getCurrentVersion == IF migrations = {} THEN 0 ELSE Largest(migrations)

RECURSIVE Ascending(_)
\* this.migrations keeps its migrations in ascending order of version
Ascending(S) == IF S = {} THEN <<>> ELSE <<Smallest(S)>> \o Ascending(S \ {Smallest(S)})

RECURSIVE Descending(_)
\* .sort((a, b) => b.version - a.version)
Descending(S) == IF S = {} THEN <<>> ELSE <<Largest(S)>> \o Descending(S \ {Largest(S)})

\* this.migrations.filter(migration => migration.version > currentVersion)
getPendingMigrations ==
    Ascending({m.version : m \in {x \in Range(MigrationList) : x.version > getCurrentVersion}})

\* this.migrations.filter(m => m.version > targetVersion && m.version <= currentVersion)
\*     .sort((a, b) => b.version - a.version)
migrationsToRollback(targetVersion, currentVersion) ==
    Descending({m.version : m \in {x \in Range(MigrationList) :
                    x.version > targetVersion /\ x.version <= currentVersion}})

\* the versions a caller passes to rollbackMigration
TargetVersions == (0 - 1)..(Len(MigrationList) + 1)

\* runMigrations() up to its loop
RunMigrationsStart ==
    /\ pc = "idle"
    /\ migrationCall.op = "none"
    /\ IF Len(getPendingMigrations) = 0
       THEN /\ ret' = [op |-> "runMigrations", threw |-> FALSE, version |-> 0,
                       targetVersion |-> 0, before |-> getCurrentVersion]
            /\ UNCHANGED migrationCall
       ELSE /\ migrationCall' = [op |-> "runMigrations", targetVersion |-> 0,
                                 before |-> getCurrentVersion, queue |-> getPendingMigrations]
            /\ ret' = NoReturn
    /\ UNCHANGED <<migrations, schemaObjects, storeVars, pc, callVars, loopVars, signalVars,
                   connection>>

\* one pass of the loop of runMigrations: BEGIN TRANSACTION, up, INSERT INTO migrations,
\* COMMIT; when one of them throws, ROLLBACK and the call throws
RunMigrationsStep(fails) ==
    /\ migrationCall.op = "runMigrations"
    /\ LET version == Head(migrationCall.queue)
       IN  IF fails
           THEN /\ ret' = [op |-> "runMigrations", threw |-> TRUE, version |-> version,
                           targetVersion |-> 0, before |-> migrationCall.before]
                /\ migrationCall' = NoMigrationCall
                /\ UNCHANGED <<migrations, schemaObjects>>
           ELSE /\ migrations' = migrations \cup {version}
                /\ schemaObjects' = schemaObjects \cup {version}
                /\ IF Len(migrationCall.queue) = 1
                   THEN /\ ret' = [op |-> "runMigrations", threw |-> FALSE, version |-> 0,
                                   targetVersion |-> 0, before |-> migrationCall.before]
                        /\ migrationCall' = NoMigrationCall
                   ELSE /\ migrationCall' = [migrationCall EXCEPT !.queue = Tail(@)]
                        /\ UNCHANGED ret
    /\ UNCHANGED <<storeVars, pc, callVars, loopVars, signalVars, connection>>

\* rollbackMigration(targetVersion) up to its loop
RollbackMigrationStart(targetVersion) ==
    /\ pc = "idle"
    /\ migrationCall.op = "none"
    /\ IF \/ targetVersion >= getCurrentVersion
          \/ Len(migrationsToRollback(targetVersion, getCurrentVersion)) = 0
       THEN /\ ret' = [op |-> "rollbackMigration", threw |-> FALSE, version |-> 0,
                       targetVersion |-> targetVersion, before |-> getCurrentVersion]
            /\ UNCHANGED migrationCall
       ELSE /\ migrationCall' =
                    [op |-> "rollbackMigration", targetVersion |-> targetVersion,
                     before |-> getCurrentVersion,
                     queue |-> migrationsToRollback(targetVersion, getCurrentVersion)]
            /\ ret' = NoReturn
    /\ UNCHANGED <<migrations, schemaObjects, storeVars, pc, callVars, loopVars, signalVars,
                   connection>>

\* one pass of the loop of rollbackMigration: the check of migration.down, then BEGIN
\* TRANSACTION, down, DELETE FROM migrations, COMMIT; when one of them throws, ROLLBACK and
\* the call throws
RollbackMigrationStep(fails) ==
    /\ migrationCall.op = "rollbackMigration"
    /\ LET version == Head(migrationCall.queue)
       IN  IF ~MigrationOf(version).hasDown \/ fails
           THEN /\ ret' = [op |-> "rollbackMigration", threw |-> TRUE, version |-> version,
                           targetVersion |-> migrationCall.targetVersion,
                           before |-> migrationCall.before]
                /\ migrationCall' = NoMigrationCall
                /\ UNCHANGED <<migrations, schemaObjects>>
           ELSE /\ migrations' = migrations \ {version}
                /\ schemaObjects' = schemaObjects \ {version}
                /\ IF Len(migrationCall.queue) = 1
                   THEN /\ ret' = [op |-> "rollbackMigration", threw |-> FALSE,
                                   version |-> 0,
                                   targetVersion |-> migrationCall.targetVersion,
                                   before |-> migrationCall.before]
                        /\ migrationCall' = NoMigrationCall
                   ELSE /\ migrationCall' = [migrationCall EXCEPT !.queue = Tail(@)]
                        /\ UNCHANGED ret
    /\ UNCHANGED <<storeVars, pc, callVars, loopVars, signalVars, connection>>

\* resetDatabase(): DROP TABLE IF EXISTS of every table and DROP INDEX IF EXISTS of every
\* index in one transaction; when a statement throws, ROLLBACK and the call throws
ResetDatabase(fails) ==
    /\ pc = "idle"
    /\ migrationCall.op = "none"
    /\ IF fails
       THEN UNCHANGED <<migrations, schemaObjects, storeVars>>
       ELSE /\ migrations' = {}
            /\ schemaObjects' = {}
            /\ photos' = <<>>
            /\ duplicate_groups' = NoGroups
            /\ duplicate_group_photos' = {}
            /\ groupSeq' = 0
            /\ analysis_sessions' = <<>>
    /\ ret' = [op |-> "resetDatabase", threw |-> fails, version |-> 0, targetVersion |-> 0,
               before |-> getCurrentVersion]
    /\ UNCHANGED <<migrationCall, pc, callVars, loopVars, signalVars, connection>>

\* the tables of the initial schema exist
HasTables == 1 \in schemaObjects

\* runMigrations, rollbackMigration and resetDatabase calls, one at a time, in which any
\* transaction may fail, and savePhoto calls while the tables exist
NextMigration ==
    \/ /\ HasTables
       /\ migrationCall.op = "none"
       /\ \E localIdentifier \in 1..NPhotos, fileSize \in 1..MaxSize :
            CallSavePhoto(localIdentifier, fileSize, LeadingOnes(0))
    \/ \E fails \in BOOLEAN : ResetDatabase(fails)
    \/ RunMigrationsStart
    \/ \E fails \in BOOLEAN : RunMigrationsStep(fails)
    \/ \E targetVersion \in TargetVersions : RollbackMigrationStart(targetVersion)
    \/ \E fails \in BOOLEAN : RollbackMigrationStep(fails)

SpecMigration == Init /\ [][NextMigration]_vars

\* C30: rollbackMigration(targetVersion) is all-or-nothing: when it has returned or thrown,
\* the recorded schema version is not strictly between targetVersion and the version before
\* the call, and a call that failed on a migration without a down step has rolled nothing
\* back.
C30_RollbackAllOrNothing ==
    ret.op = "rollbackMigration" =>
        /\ ~(ret.targetVersion < getCurrentVersion /\ getCurrentVersion < ret.before)
        /\ (ret.threw /\ ~MigrationOf(ret.version).hasDown => getCurrentVersion = ret.before)

====
